---- MODULE Spec2Model ----
(***************************************************************************)
(* A model of the urbassist drawing editor.                                *)
(*                                                                         *)
(*   Spec      the CanvasEditor hook (components/editor/CanvasEditor.tsx)  *)
(*             together with the scale/grid part of the project store      *)
(*   SpecTie   the same hook, in longer sessions of fewer operations        *)
(*   SpecPage  the EditorPage component (app/editor/page.tsx):             *)
(*             createDimensionLine; SpecUnits its unit conversions,        *)
(*             SpecShapes a drawing session, SpecPolygon a polygon drawn   *)
(*             point by point, SpecRegistry shapes added, deleted and      *)
(*             redrawn, SpecGesture mouse events between two bindings of   *)
(*             the handlers, SpecPoly degenerate polygons                  *)
(*   SpecStore the projects of useProjectStore (app/editor/page.tsx)       *)
(*                                                                         *)
(* Coordinates are whole pixels.  A measurement is a fraction num/den that *)
(* is never reduced; den = 0 is the JavaScript division by zero: 0/0 is    *)
(* NaN and n/0 with n # 0 is Infinity.                                     *)
(*                                                                         *)
(* snapToGrid, findAlignmentGuides, calculateDimensions, calculatePolygon- *)
(* Area, calculateDistance, DEFAULT_GRID_SETTINGS and SHAPE_TEMPLATES are  *)
(* imported from lib/ modules whose source is not part of the two files    *)
(* modelled here; they are written from the design document.               *)
(***************************************************************************)
EXTENDS Integers, Sequences, FiniteSets, TLC

VARIABLES
    scale,            \* store: scale
    gridEnabled,      \* store: gridEnabled
    gridSettings,     \* CanvasEditor state: gridSettings
    captured,         \* what the handlers bound by the canvas init effect see
    objects,          \* canvas.getObjects() of the CanvasEditor canvas
    active,           \* index of the active object in objects, 0 for none
    nextId,           \* the next fresh id (crypto.randomUUID)
    measurements,     \* CanvasEditor state: measurements
    measured,         \* the object updateMeasurements last measured
    alignmentGuides,  \* CanvasEditor state: alignmentGuides
    dimensionLabels,  \* CanvasEditor state: dimensionLabels
    lastTick,         \* record of the object:moving tick that has just run
    steps,            \* number of user operations so far in the session
    placed,           \* record of the last addFromTemplate call
    pcanvas,          \* EditorPage: fabricRef.current.getObjects()
    lastDim,          \* EditorPage: record of the last createDimensionLine call
    currentScale,     \* EditorPage state: currentScale
    lastConv,         \* record of the last pixels -> metres -> pixels conversion
    lastFmt,          \* record of the last formatMeasurement call
    registry,         \* EditorPage: measurementLabelsRef.current
    nextUid,          \* identity of the next fabric object the page creates
    pactive,          \* EditorPage: uid of canvas.getActiveObject(), 0 for none
    activeTool,       \* EditorPage state: activeTool
    isDrawing,        \* EditorPage state: isDrawing
    drawingStart,     \* EditorPage state: drawingStart
    tempShape,        \* EditorPage state: uid of tempShape, 0 for null
    lastEvt,          \* record of the last EditorPage handler that ran
    polygonPoints,    \* EditorPage state: polygonPoints
    mousePos,         \* EditorPage state: mousePos
    showGrid,         \* EditorPage state: showGrid
    bound,            \* what the mouse handlers bound by the last run of their
                      \* effect see, and whether they sit on the live canvas
    currentProject,   \* store: currentProject
    projects          \* store: projects

vars == <<scale, gridEnabled, gridSettings, captured, objects, active, nextId,
          measurements, measured, alignmentGuides, dimensionLabels, lastTick,
          steps, placed, pcanvas, lastDim, currentScale, lastConv, lastFmt,
          registry, nextUid, pactive, activeTool, isDrawing, drawingStart,
          tempShape, lastEvt, polygonPoints, mousePos, showGrid, bound,
          currentProject, projects>>

\* The projects of the store.
storeVars == <<currentProject, projects>>

canvasVars == <<scale, gridEnabled, gridSettings, captured, objects, active,
                nextId, measurements, measured, alignmentGuides,
                dimensionLabels, lastTick, steps, placed>>

\* The CanvasEditor state but the operation count.
editorVars == <<scale, gridEnabled, gridSettings, captured, objects, active,
                nextId, measurements, measured, alignmentGuides,
                dimensionLabels, lastTick, placed>>

\* The scale of EditorPage and the records of its conversions.
unitVars == <<currentScale, lastConv, lastFmt>>

\* The drawing state of EditorPage.
shapeVars == <<registry, nextUid, pactive, activeTool, isDrawing, drawingStart,
               tempShape, lastEvt, polygonPoints, mousePos, showGrid, bound>>

\* The polygon points, the pointer position and the grid switch.
drawVars == <<polygonPoints, mousePos, showGrid>>

pageVars == <<pcanvas, lastDim, currentScale, lastConv, lastFmt, shapeVars>>

(***************************************************************************)
(* Bounds of the model                                                     *)
(***************************************************************************)
MaxObjects == 3

MaxSteps == 4

MaxTieSteps == 6

GridLinesShown == 1

MaxDimLines == 2

MaxShapes == 2

MaxShapeSteps == 4

MaxPolySteps == 3

MaxPolygonPoints == 4

MaxPolygonSteps == 5

MaxRegistrySteps == 4

MaxGestureSteps == 6

MaxProjects == 2

MaxElements == 2

MaxStoreSteps == 5

\* Bits in the significand of the binary floating-point numbers of the model
\* (an IEEE double has 53).
FloatBits == 6

(***************************************************************************)
(* Program constants                                                       *)
(***************************************************************************)
BASE_PIXELS_PER_METER == 10

CanvasWidth == 1200

CanvasHeight == 800

(***************************************************************************)
(* Arithmetic helpers                                                      *)
(***************************************************************************)
Abs(x) == IF x < 0 THEN -x ELSE x

Min(a, b) == IF a < b THEN a ELSE b

\* Math.round(n / d) for d > 0: halves round towards +Infinity.
MathRound(n, d) == (2 * n + d) \div (2 * d)

\* A JavaScript number that is the quotient of two whole numbers.
Frac(n, d) == [num |-> n, den |-> d]

IsNaN(v) == v.den = 0 /\ v.num = 0

IsInfinite(v) == v.den = 0 /\ v.num # 0

IsFinite(v) == v.den # 0

\* v = n/d as numbers (both finite).
FracEq(v, n, d) == IsFinite(v) /\ d # 0 /\ v.num * d = n * v.den

IsZero(v) == IsFinite(v) /\ v.num = 0

NoPoint == [x |-> 0, y |-> 0]

\* JavaScript's (v || 1) for a number v.
OrOne(v) == IF v = 0 THEN 1 ELSE v

\* The largest whole r with r * r <= n (Math.sqrt, rounded down to a pixel).
ISqrt(n) == CHOOSE r \in 0..2000 : r * r <= n /\ n < (r + 1) * (r + 1)

(***************************************************************************)
(* lib/drawingTools and lib/utils, written from the design document        *)
(***************************************************************************)
\* The default grid settings: a one metre grid and a tolerance of 4 pixels;
\* the two switches may start either way.
DEFAULT_GRID_SETTINGS ==
    { [size |-> 1, snapToGrid |-> s, autoAlign |-> a, alignThreshold |-> 4] :
        s \in BOOLEAN, a \in BOOLEAN }

\* The templates offered to addFromTemplate (sizes in metres).
SHAPE_TEMPLATES == { [id |-> "house", defaultWidth |-> 12, defaultHeight |-> 8] }

\* snapToGrid(x, y, gridSize, pixelsPerMeter): each coordinate rounded to the
\* nearest multiple of the cell size gridSize * pixelsPerMeter; a cell size
\* <= 0 is the error InvalidConfiguration (ok = FALSE), fatal to the call.
snapToGrid(x, y, gridSize, pixelsPerMeter) ==
    LET cell == gridSize * pixelsPerMeter IN
    IF cell <= 0
      THEN [ok |-> FALSE, x |-> 0, y |-> 0]
      ELSE [ok |-> TRUE,
            x |-> MathRound(x, cell) * cell,
            y |-> MathRound(y, cell) * cell]

\* The value a box has on one of the six candidate axes.
AxisValue(b, edge) ==
    CASE edge = "left"    -> b.left
      [] edge = "right"   -> b.left + b.width
      [] edge = "centerX" -> b.left + (b.width \div 2)
      [] edge = "top"     -> b.top
      [] edge = "bottom"  -> b.top + b.height
      [] edge = "centerY" -> b.top + (b.height \div 2)

AxisType(edge) ==
    IF edge \in {"left", "right", "centerX"} THEN "vertical" ELSE "horizontal"

CandidateAxes == <<"left", "right", "centerX", "top", "bottom", "centerY">>

\* The index of the first box of others, in order, whose value on the axis is
\* closer than threshold to the moving box's; 0 when there is none.
FirstMatch(cur, others, edge, threshold) ==
    LET hits == { k \in 1..Len(others) :
                    Abs(AxisValue(cur, edge) - AxisValue(others[k], edge)) < threshold }
    IN IF hits = {} THEN 0 ELSE CHOOSE k \in hits : \A j \in hits : k <= j

RECURSIVE GuidesFrom(_, _, _, _)
GuidesFrom(n, cur, others, threshold) ==
    IF n > Len(CandidateAxes) THEN <<>>
    ELSE LET edge == CandidateAxes[n]
             k    == FirstMatch(cur, others, edge, threshold)
             rest == GuidesFrom(n + 1, cur, others, threshold)
         IN IF k = 0 THEN rest
            ELSE <<[type      |-> AxisType(edge),
                    position  |-> AxisValue(others[k], edge),
                    relatedId |-> others[k].id,
                    edge      |-> edge]>> \o rest

\* findAlignmentGuides(current, others, threshold): for each candidate axis
\* the first other box (insertion order) within the threshold gives one guide
\* at that box's position.  The field edge is bookkeeping: it records which
\* edge or centre matched.
findAlignmentGuides(cur, others, threshold) == GuidesFrom(1, cur, others, threshold)

\* Twice the shoelace sum of a vertex list (wrap-around on the last edge).
RECURSIVE ShoelaceSum(_, _)
ShoelaceSum(points, i) ==
    IF i > Len(points) THEN 0
    ELSE LET p == points[i]
             q == points[(i % Len(points)) + 1]
         IN (p.x * q.y - q.x * p.y) + ShoelaceSum(points, i + 1)

\* calculatePolygonArea(points), doubled so that it stays a whole number.
calculatePolygonAreaTwice(points) == Abs(ShoelaceSum(points, 1))

\* calculateDistance(p1, p2) of lib/utils: the Euclidean distance in pixels.
calculateDistancePx(p, q) ==
    ISqrt((q.x - p.x) * (q.x - p.x) + (q.y - p.y) * (q.y - p.y))

\* calculateDimensions(bounds, pixelsPerMeter): one label for the width and
\* one for the height of the box, in metres.
calculateDimensions(bounds, pixelsPerMeter) ==
    << [value |-> Frac(bounds.width, pixelsPerMeter),
        position |-> [x |-> bounds.left + (bounds.width \div 2), y |-> bounds.top],
        angle |-> 0],
       [value |-> Frac(bounds.height, pixelsPerMeter),
        position |-> [x |-> bounds.left, y |-> bounds.top + (bounds.height \div 2)],
        angle |-> -90] >>

(***************************************************************************)
(* CanvasEditor: canvas objects                                            *)
(***************************************************************************)
NoPoints == <<>>

\* A fabric object, with the fields the editor reads.  id = 0: no id.
Obj(id, type, left, top, width, height, selectable, points) ==
    [id |-> id, type |-> type, left |-> left, top |-> top,
     width |-> width, height |-> height, scaleX |-> 1, scaleY |-> 1,
     selectable |-> selectable, points |-> points]

NoObj == Obj(0, "none", 0, 0, 0, 0, FALSE, NoPoints)

\* addRectangle's fabric.Rect.
NewRect == Obj(0, "rect", 100, 100, 200, 150, TRUE, NoPoints)

PolygonPoints ==
    << [x |-> 200, y |-> 100], [x |-> 350, y |-> 100], [x |-> 400, y |-> 200],
       [x |-> 350, y |-> 300], [x |-> 200, y |-> 300], [x |-> 150, y |-> 200] >>

\* addPolygon's fabric.Polygon; fabric places it on the bounding box of its points.
NewPolygon == Obj(0, "polygon", 150, 100, 250, 200, TRUE, PolygonPoints)

\* addLine's fabric.Line([100, 100, 400, 100]).
NewLine == Obj(0, "line", 100, 100, 300, 0, TRUE, NoPoints)

\* drawGrid(canvas) with the scale its closure holds: the first GridLinesShown
\* vertical and horizontal lines of the grid.  gridSize = 20 * scale.
GridLineCount(extent, gridSize) ==
    IF gridSize <= 0 THEN 0
    ELSE Min(GridLinesShown, (extent + gridSize - 1) \div gridSize)

drawGrid(sc) ==
    LET gridSize == 20 * sc
        nv == GridLineCount(CanvasWidth, gridSize)
        nh == GridLineCount(CanvasHeight, gridSize)
    IN [i \in 1..nv |->
          Obj(0, "line", (i - 1) * gridSize, 0, 0, CanvasHeight, FALSE, NoPoints)]
       \o
       [i \in 1..nh |->
          Obj(0, "line", 0, (i - 1) * gridSize, CanvasWidth, 0, FALSE, NoPoints)]

\* With gridSize = 0 the loop bound canvas.width / gridSize is Infinity and
\* drawGrid never returns.
drawGridHangs(sc) == 20 * sc = 0

UserObjects == { i \in 1..Len(objects) : objects[i].selectable }

RemoveAt(seq, i) == [k \in 1..(Len(seq) - 1) |-> IF k < i THEN seq[k] ELSE seq[k + 1]]

(***************************************************************************)
(* CanvasEditor: measurements                                              *)
(***************************************************************************)
ZeroMeasurements == [area |-> Frac(0, 1), perimeter |-> Frac(0, 1)]

\* perimeter += calculateDistance(p1, p2) / (scale * 100), over all edges.
RECURSIVE PerimeterSum(_, _)
PerimeterSum(points, i) ==
    IF i > Len(points) THEN 0
    ELSE calculateDistancePx(points[i], points[(i % Len(points)) + 1])
         + PerimeterSum(points, i + 1)

PolygonPerimeter(points, den) ==
    IF den = 0 /\ \E i \in 1..Len(points) :
                     calculateDistancePx(points[i], points[(i % Len(points)) + 1]) = 0
      THEN Frac(0, 0)
      ELSE Frac(PerimeterSum(points, 1), den)

\* updateMeasurements(obj) run with the scale sc of its closure.
\* A polygon's area is kept as twice the shoelace value over twice the divisor.
updateMeasurements(obj, sc) ==
    IF obj.type = "rect"
      THEN LET w == obj.width * OrOne(obj.scaleX)
               h == obj.height * OrOne(obj.scaleY)
           IN [area      |-> Frac(w * h, sc * sc * 10000),
               perimeter |-> Frac(2 * (w + h), sc * 100)]
    ELSE IF obj.type = "polygon"
      THEN [area      |-> Frac(calculatePolygonAreaTwice(obj.points), 2 * sc * sc * 10000),
            perimeter |-> PolygonPerimeter(obj.points, sc * 100)]
    ELSE ZeroMeasurements

\* updateDimensionLabels(obj) run with the scale sc of its closure.
updateDimensionLabels(obj, sc) ==
    LET pixelsPerMeter == sc * BASE_PIXELS_PER_METER
        bounds == [left   |-> obj.left,
                   top    |-> obj.top,
                   width  |-> obj.width * OrOne(obj.scaleX),
                   height |-> obj.height * OrOne(obj.scaleY)]
    IN calculateDimensions(bounds, pixelsPerMeter)

(***************************************************************************)
(* CanvasEditor: the object:moving handler                                 *)
(***************************************************************************)
PointerXs == {102, 104, 108}

PointerYs == {103}

\* What a closure sees of the settings: gridSettings and the store's scale.
Seen(gs, sc) == [gs |-> gs, scale |-> sc]

\* The cell size, in pixels, the snap step asks snapToGrid for.
CellSize(seen) == seen.gs.size * (seen.scale * BASE_PIXELS_PER_METER)

\* SnapStep with top left as the pointer set it.
SnapStepLeftOnly(left, top, seen) ==
    IF seen.gs.snapToGrid
      THEN LET snapped == snapToGrid(left, top, seen.gs.size,
                                     seen.scale * BASE_PIXELS_PER_METER)
           IN [ok |-> snapped.ok, x |-> snapped.x, y |-> top]
      ELSE [ok |-> TRUE, x |-> left, y |-> top]

\* "Snap to grid": the values of left and top after the step.
SnapStep(left, top, seen) ==
    IF seen.gs.snapToGrid
      THEN snapToGrid(left, top, seen.gs.size, seen.scale * BASE_PIXELS_PER_METER)
      ELSE [ok |-> TRUE, x |-> left, y |-> top]

\* canvas.getObjects().filter(...): the indexes of the objects compared with
\* the target t, in canvas order.
RECURSIVE AlignCandidatesFrom(_, _, _)
AlignCandidatesFrom(objs, t, k) ==
    IF k > Len(objs) THEN <<>>
    ELSE (IF k # t /\ objs[k].selectable /\ objs[k].type # "line"
            THEN <<k>> ELSE <<>>)
         \o AlignCandidatesFrom(objs, t, k + 1)

\* AlignCandidates without obj !== target.
AlignCandidatesWithTarget(objs, t) == AlignCandidatesFrom(objs, 0, 1)

AlignCandidates(objs, t) == AlignCandidatesFrom(objs, t, 1)

\* currentBounds; id 0 stands for 'current'.
CurrentBounds(target, left, top) ==
    [left   |-> left,
     top    |-> top,
     width  |-> target.width * OrOne(target.scaleX),
     height |-> target.height * OrOne(target.scaleY),
     id     |-> target.id]

\* One entry of otherBounds; rid is what Math.random().toString() gave.
OtherBounds(obj, rid) ==
    [left   |-> obj.left,
     top    |-> obj.top,
     width  |-> obj.width * OrOne(obj.scaleX),
     height |-> obj.height * OrOne(obj.scaleY),
     id     |-> IF obj.id # 0 THEN obj.id ELSE rid]

\* The random id of the k-th compared object in a tick whose draw is rnd.
RandomId(rnd, k) == 0 - (10 * rnd + k)

RandomDraws == {1, 2}

\* guides.forEach(...): the target's position after the clamp.  left and top
\* are the handler's locals; pos is the target's position so far.
RECURSIVE ClampFrom(_, _, _, _, _, _)
ClampFrom(pos, left, top, guides, threshold, n) ==
    IF n > Len(guides) THEN pos
    ELSE LET g == guides[n]
             next == IF g.type = "vertical"
                       THEN (IF Abs(left - g.position) < threshold
                               THEN [pos EXCEPT !.x = g.position] ELSE pos)
                       ELSE (IF Abs(top - g.position) < threshold
                               THEN [pos EXCEPT !.y = g.position] ELSE pos)
         IN ClampFrom(next, left, top, guides, threshold, n + 1)

ClampStep(left, top, guides, threshold) ==
    ClampFrom([x |-> left, y |-> top], left, top, guides, threshold, 1)

\* The bounds and the guides of a tick: what findAlignmentGuides is asked
\* and what it answers.
TickOthers(objs, t, rnd) ==
    LET cand == AlignCandidates(objs, t)
    IN [k \in 1..Len(cand) |-> OtherBounds(objs[cand[k]], RandomId(rnd, k))]

TickGuides(objs, t, left, top, seen, rnd) ==
    findAlignmentGuides(CurrentBounds(objs[t], left, top),
                        TickOthers(objs, t, rnd),
                        seen.gs.alignThreshold)

NoTick ==
    [status |-> "none", target |-> 0, pointer |-> NoPoint, seen |-> Seen(0, 0),
     now |-> Seen(0, 0), snapped |-> NoPoint, bounds |-> 0, others |-> <<>>,
     detected |-> FALSE, guides |-> <<>>, final |-> NoPoint,
     rendered |-> FALSE, frame |-> NoPoint]

\* MovingTick with the guides looked for before the snap step.
MovingTickDetectFirst(objs, t, px, py, seen, now, rnd) ==
    LET snap   == SnapStep(px, py, seen)
        left   == snap.x
        top    == snap.y
        guides == TickGuides(objs, t, px, py, seen, rnd)
        final  == IF seen.gs.autoAlign
                    THEN ClampStep(left, top, guides, seen.gs.alignThreshold)
                    ELSE [x |-> left, y |-> top]
    IN IF ~snap.ok
         THEN [NoTick EXCEPT !.status = "error", !.target = t,
                             !.pointer = [x |-> px, y |-> py],
                             !.seen = seen, !.now = now,
                             !.final = [x |-> px, y |-> py]]
         ELSE [status   |-> "done",
               target   |-> t,
               pointer  |-> [x |-> px, y |-> py],
               seen     |-> seen,
               now      |-> now,
               snapped  |-> [x |-> left, y |-> top],
               bounds   |-> CurrentBounds(objs[t], left, top),
               others   |-> TickOthers(objs, t, rnd),
               detected |-> seen.gs.autoAlign,
               guides   |-> IF seen.gs.autoAlign THEN guides ELSE <<>>,
               final    |-> final,
               rendered |-> TRUE,
               frame    |-> final]

\* The whole handler, for target t that the pointer has put at (px, py), run
\* with the settings seen its closure holds.  status "error": snapToGrid
\* failed and the handler stopped there.
MovingTick(objs, t, px, py, seen, now, rnd) ==
    LET snap   == SnapStep(px, py, seen)
        left   == snap.x
        top    == snap.y
        guides == TickGuides(objs, t, left, top, seen, rnd)
        final  == IF seen.gs.autoAlign
                    THEN ClampStep(left, top, guides, seen.gs.alignThreshold)
                    ELSE [x |-> left, y |-> top]
    IN IF ~snap.ok
         THEN [NoTick EXCEPT !.status = "error", !.target = t,
                             !.pointer = [x |-> px, y |-> py],
                             !.seen = seen, !.now = now,
                             !.final = [x |-> px, y |-> py]]
         ELSE [status   |-> "done",
               target   |-> t,
               pointer  |-> [x |-> px, y |-> py],
               seen     |-> seen,
               now      |-> now,
               snapped  |-> [x |-> left, y |-> top],
               bounds   |-> CurrentBounds(objs[t], left, top),
               others   |-> TickOthers(objs, t, rnd),
               detected |-> seen.gs.autoAlign,
               guides   |-> IF seen.gs.autoAlign THEN guides ELSE <<>>,
               final    |-> final,
               rendered |-> TRUE,
               frame    |-> final]

(***************************************************************************)
(* CanvasEditor and store: initial state and operations                    *)
(***************************************************************************)
ScaleInputs == {0, 2}

GridSizeInputs == {0}

\* The scale factors a scaling gesture may leave on an object.
ScaleFactorInputs == {<<1, 1>>, <<2, 1>>, <<0, 2>>}

NoMeasured ==
    [done |-> FALSE, obj |-> NoObj, seenScale |-> 0, storeScale |-> 0,
     by |-> "none", hadGuides |-> FALSE]

NoPlaced == [status |-> "none", snapOn |-> FALSE, size |-> 0, left |-> 0, top |-> 0]

NoDim == [done |-> FALSE]

NoConv == [done |-> FALSE]

NoFmt == [done |-> FALSE]

\* const SCALES = [...]; value is kept as a fraction.
SCALES ==
    << [label |-> "1:50",  value |-> [num |-> 1, den |-> 2], pixelsPerMeter |-> 20],
       [label |-> "1:100", value |-> [num |-> 1, den |-> 1], pixelsPerMeter |-> 10],
       [label |-> "1:200", value |-> [num |-> 2, den |-> 1], pixelsPerMeter |-> 5],
       [label |-> "1:500", value |-> [num |-> 5, den |-> 1], pixelsPerMeter |-> 2] >>

NoEdge == [x1 |-> 0, y1 |-> 0, x2 |-> 0, y2 |-> 0]

NoEvt == [kind |-> "none"]

\* const [canvasSize] = useState({ width: 1400, height: 900 })
PageWidth == 1400

PageHeight == 900

\* A fabric object of the EditorPage canvas. uid stands for the object's
\* identity; id, isGrid, isMeasurement and parentId are the properties the
\* page attaches; edge, offset and label are what a dimension element was
\* generated from. left, top, radius and points are in 1/unit of a pixel.
PageObj(uid, type, role) ==
    [uid |-> uid, type |-> type, role |-> role, id |-> "", isGrid |-> FALSE,
     isMeasurement |-> FALSE, parentId |-> "", selectable |-> TRUE,
     left |-> 0, top |-> 0, width |-> 0, height |-> 0, scaleX |-> 1, scaleY |-> 1,
     x1 |-> 0, y1 |-> 0, x2 |-> 0, y2 |-> 0, points |-> <<>>, radius |-> 0,
     unit |-> 1, edge |-> NoEdge, offset |-> 0, label |-> "", angle |-> 0]

PageGridLine(x1, y1, x2, y2) ==
    [PageObj(0, "line", "grid") EXCEPT !.isGrid = TRUE, !.selectable = FALSE,
        !.x1 = x1, !.y1 = y1, !.x2 = x2, !.y2 = y2,
        !.left = x1, !.top = y1, !.width = x2 - x1, !.height = y2 - y1]

ReverseSeq(s) == [i \in 1..Len(s) |-> s[Len(s) + 1 - i]]

\* EditorPage drawGrid(canvas) on an empty canvas: the minor and the major
\* lines, the first GridLinesShown of each loop; every line is sent to the
\* back as it is added.
drawGridPage(sc) ==
    LET gridSize == sc.pixelsPerMeter
        major    == gridSize * 5
        n(extent, size) ==
            IF extent \div size + 1 < GridLinesShown
              THEN extent \div size + 1 ELSE GridLinesShown
        added ==
            [i \in 1..n(PageWidth, gridSize) |->
                PageGridLine((i - 1) * gridSize, 0, (i - 1) * gridSize, PageHeight)]
            \o [i \in 1..n(PageHeight, gridSize) |->
                PageGridLine(0, (i - 1) * gridSize, PageWidth, (i - 1) * gridSize)]
            \o [i \in 1..n(PageWidth, major) |->
                PageGridLine((i - 1) * major, 0, (i - 1) * major, PageHeight)]
            \o [i \in 1..n(PageHeight, major) |->
                PageGridLine(0, (i - 1) * major, PageWidth, (i - 1) * major)]
    IN ReverseSeq(added)

\* The canvas init effect of EditorPage: a fresh canvas, with the grid
\* drawn if showGrid is on.
FreshPageCanvas(sc, grid) == IF grid THEN drawGridPage(sc) ELSE <<>>

\* What the mouse handlers see once their effect has run on the state given.
Binding(tool, drawing, start, temp) ==
    [activeTool |-> tool, isDrawing |-> drawing, drawingStart |-> start,
     tempShape |-> temp, live |-> TRUE]

PageIdle ==
    /\ currentScale = SCALES[2]
    /\ showGrid = TRUE
    /\ pcanvas = FreshPageCanvas(currentScale, showGrid)
    /\ lastDim = NoDim
    /\ lastConv = NoConv
    /\ lastFmt = NoFmt
    /\ registry = {}
    /\ nextUid = 1
    /\ pactive = 0
    /\ activeTool = "select"
    /\ isDrawing = FALSE
    /\ drawingStart = NoPoint
    /\ tempShape = 0
    /\ lastEvt = NoEvt
    /\ polygonPoints = <<>>
    /\ mousePos = NoPoint
    /\ bound = Binding(activeTool, isDrawing, drawingStart, tempShape)

InitCanvas ==
    /\ scale = 1
    /\ gridEnabled = TRUE
    /\ gridSettings \in DEFAULT_GRID_SETTINGS
    /\ captured = Seen(gridSettings, scale)
    /\ objects = drawGrid(scale)
    /\ active = 0
    /\ nextId = 1
    /\ measurements = ZeroMeasurements
    /\ measured = NoMeasured
    /\ alignmentGuides = <<>>
    /\ dimensionLabels = <<>>
    /\ lastTick = NoTick
    /\ steps = 0
    /\ placed = NoPlaced

\* The project of the store when there is none (null).
NoProject == [id |-> 0, name |-> "", elements |-> <<>>, pluDocument |-> "",
              sitePhotos |-> <<>>]

\* The store as created: currentProject: null, projects: [].
StoreIdle ==
    /\ currentProject = NoProject
    /\ projects = <<>>

Init == InitCanvas /\ PageIdle /\ StoreIdle

\* What every operation but the one observed leaves in the bookkeeping.
Forget(tick, meas, place) ==
    /\ lastTick' = tick
    /\ measured' = meas
    /\ placed' = place

\* setMeasurements(updateMeasurements(obj)) by a handler of the init effect;
\* by names the event handled, hadGuides whether guides were shown before it.
Measure(obj, by) ==
    /\ measurements' = updateMeasurements(obj, captured.scale)
    /\ measured' = [done |-> TRUE, obj |-> obj, seenScale |-> captured.scale,
                    storeScale |-> scale, by |-> by,
                    hadGuides |-> alignmentGuides # <<>>]

\* setScale(s) of the store.
SetScale(s) ==
    /\ scale' = s
    /\ Forget(NoTick, NoMeasured, NoPlaced)
    /\ UNCHANGED <<gridEnabled, gridSettings, captured, objects, active, nextId,
                   measurements, alignmentGuides, dimensionLabels>>

\* toggleGrid() of the store: gridEnabled is a dependency of the canvas init
\* effect, so the canvas is disposed and built again, and the new handlers
\* hold the settings of this render.
ToggleGrid ==
    /\ ~(~gridEnabled /\ drawGridHangs(scale))
    /\ gridEnabled' = ~gridEnabled
    /\ captured' = Seen(gridSettings, scale)
    /\ objects' = IF gridEnabled' THEN drawGrid(scale) ELSE <<>>
    /\ active' = 0
    /\ Forget(NoTick, NoMeasured, NoPlaced)
    /\ UNCHANGED <<scale, gridSettings, nextId, measurements, alignmentGuides,
                   dimensionLabels>>

toggleSnapToGrid ==
    /\ gridSettings' = [gridSettings EXCEPT !.snapToGrid = ~gridSettings.snapToGrid]
    /\ Forget(NoTick, NoMeasured, NoPlaced)
    /\ UNCHANGED <<scale, gridEnabled, captured, objects, active, nextId,
                   measurements, alignmentGuides, dimensionLabels>>

toggleAutoAlign ==
    /\ gridSettings' = [gridSettings EXCEPT !.autoAlign = ~gridSettings.autoAlign]
    /\ Forget(NoTick, NoMeasured, NoPlaced)
    /\ UNCHANGED <<scale, gridEnabled, captured, objects, active, nextId,
                   measurements, alignmentGuides, dimensionLabels>>

setGridSize(size) ==
    /\ gridSettings' = [gridSettings EXCEPT !.size = size]
    /\ Forget(NoTick, NoMeasured, NoPlaced)
    /\ UNCHANGED <<scale, gridEnabled, captured, objects, active, nextId,
                   measurements, alignmentGuides, dimensionLabels>>

\* canvas.add(obj); canvas.setActiveObject(obj): the selection event runs
\* handleObjectSelected on the new object.
AddAndSelect(obj) ==
    /\ Cardinality(UserObjects) < MaxObjects
    /\ objects' = Append(objects, obj)
    /\ active' = Len(objects) + 1
    /\ Measure(obj, "selection:created")

addRectangle ==
    /\ AddAndSelect(NewRect)
    /\ lastTick' = NoTick
    /\ placed' = NoPlaced
    /\ UNCHANGED <<scale, gridEnabled, gridSettings, captured, nextId,
                   alignmentGuides, dimensionLabels>>

addPolygon ==
    /\ AddAndSelect(NewPolygon)
    /\ lastTick' = NoTick
    /\ placed' = NoPlaced
    /\ UNCHANGED <<scale, gridEnabled, gridSettings, captured, nextId,
                   alignmentGuides, dimensionLabels>>

addLine ==
    /\ AddAndSelect(NewLine)
    /\ lastTick' = NoTick
    /\ placed' = NoPlaced
    /\ UNCHANGED <<scale, gridEnabled, gridSettings, captured, nextId,
                   alignmentGuides, dimensionLabels>>

\* The rectangle addFromTemplate builds, and where: centred, then snapped
\* with the settings of the current render.
TemplatePlace(template, seen) ==
    LET pixelsPerMeter == seen.scale * BASE_PIXELS_PER_METER
        widthPx  == template.defaultWidth * pixelsPerMeter
        heightPx == template.defaultHeight * pixelsPerMeter
        left == (CanvasWidth - widthPx) \div 2
        top  == (CanvasHeight - heightPx) \div 2
        snap == IF seen.gs.snapToGrid
                  THEN snapToGrid(left, top, seen.gs.size, pixelsPerMeter)
                  ELSE [ok |-> TRUE, x |-> left, y |-> top]
    IN [ok |-> snap.ok, left |-> snap.x, top |-> snap.y,
        width |-> widthPx, height |-> heightPx]

addFromTemplate(template) ==
    LET at == TemplatePlace(template, Seen(gridSettings, scale))
        rect == Obj(nextId, "rect", at.left, at.top, at.width, at.height, TRUE, NoPoints)
    IN /\ Cardinality(UserObjects) < MaxObjects
       /\ lastTick' = NoTick
       /\ IF at.ok
            THEN /\ AddAndSelect(rect)
                 /\ nextId' = nextId + 1
                 /\ dimensionLabels' = updateDimensionLabels(rect, scale)
                 /\ placed' = [status |-> "placed", snapOn |-> gridSettings.snapToGrid,
                               size |-> gridSettings.size,
                               left |-> at.left, top |-> at.top]
            ELSE /\ placed' = [status |-> "error", snapOn |-> gridSettings.snapToGrid,
                               size |-> gridSettings.size, left |-> 0, top |-> 0]
                 /\ measured' = NoMeasured
                 /\ UNCHANGED <<objects, active, nextId, measurements, dimensionLabels>>
       /\ UNCHANGED <<scale, gridEnabled, gridSettings, captured, alignmentGuides>>

\* The user clicks an object that is not the active one.
SelectObject(i) ==
    /\ i \in UserObjects
    /\ i # active
    /\ active' = i
    /\ Measure(objects[i], "selection:updated")
    /\ lastTick' = NoTick
    /\ placed' = NoPlaced
    /\ UNCHANGED <<scale, gridEnabled, gridSettings, captured, objects, nextId,
                   alignmentGuides, dimensionLabels>>

\* selection:cleared.
ClearSelection ==
    /\ active # 0
    /\ active' = 0
    /\ measurements' = ZeroMeasurements
    /\ Forget(NoTick, NoMeasured, NoPlaced)
    /\ UNCHANGED <<scale, gridEnabled, gridSettings, captured, objects, nextId,
                   alignmentGuides, dimensionLabels>>

\* One object:moving event for the active object, which the pointer has put
\* at (px, py).
ObjectMoving(px, py, rnd) ==
    LET tick == MovingTick(objects, active, px, py, captured,
                           Seen(gridSettings, scale), rnd)
    IN /\ active # 0
       /\ objects' = [objects EXCEPT ![active].left = tick.final.x,
                                     ![active].top = tick.final.y]
       /\ alignmentGuides' = IF tick.detected THEN tick.guides ELSE alignmentGuides
       /\ Forget(tick, NoMeasured, NoPlaced)
       /\ UNCHANGED <<scale, gridEnabled, gridSettings, captured, active, nextId,
                      measurements, dimensionLabels>>

\* ObjectModified with the first object:modified handler only.
ObjectModifiedMeasureOnly(f) ==
    LET target == [objects[active] EXCEPT !.scaleX = f[1], !.scaleY = f[2]]
    IN /\ active # 0
       /\ objects' = [objects EXCEPT ![active] = target]
       /\ Measure(target, "object:modified")
       /\ dimensionLabels' = updateDimensionLabels(target, captured.scale)
       /\ lastTick' = NoTick
       /\ placed' = NoPlaced
       /\ UNCHANGED <<scale, gridEnabled, gridSettings, captured, active, nextId,
                      alignmentGuides>>

\* object:modified for the active object, at the end of a move or of a
\* scaling gesture that left the scale factors f: both handlers run.
ObjectModified(f) ==
    LET target == [objects[active] EXCEPT !.scaleX = f[1], !.scaleY = f[2]]
    IN /\ active # 0
       /\ objects' = [objects EXCEPT ![active] = target]
       /\ Measure(target, "object:modified")
       /\ dimensionLabels' = updateDimensionLabels(target, captured.scale)
       /\ alignmentGuides' = <<>>
       /\ lastTick' = NoTick
       /\ placed' = NoPlaced
       /\ UNCHANGED <<scale, gridEnabled, gridSettings, captured, active, nextId>>

deleteSelected ==
    /\ active # 0
    /\ objects' = RemoveAt(objects, active)
    /\ active' = 0
    /\ measurements' = ZeroMeasurements
    /\ Forget(NoTick, NoMeasured, NoPlaced)
    /\ UNCHANGED <<scale, gridEnabled, gridSettings, captured, nextId,
                   alignmentGuides, dimensionLabels>>

\* clearCanvas holds the drawGrid of the render in which gridEnabled last changed.
clearCanvas ==
    /\ ~(gridEnabled /\ drawGridHangs(captured.scale))
    /\ objects' = IF gridEnabled THEN drawGrid(captured.scale) ELSE <<>>
    /\ active' = 0
    /\ measurements' = IF active # 0 THEN ZeroMeasurements ELSE measurements
    /\ Forget(NoTick, NoMeasured, NoPlaced)
    /\ UNCHANGED <<scale, gridEnabled, gridSettings, captured, nextId,
                   alignmentGuides, dimensionLabels>>

NextCanvas ==
    \/ \E s \in ScaleInputs : SetScale(s)
    \/ ToggleGrid
    \/ toggleSnapToGrid
    \/ toggleAutoAlign
    \/ \E size \in GridSizeInputs : setGridSize(size)
    \/ addRectangle
    \/ addPolygon
    \/ addLine
    \/ \E t \in SHAPE_TEMPLATES : addFromTemplate(t)
    \/ \E i \in 1..Len(objects) : SelectObject(i)
    \/ ClearSelection
    \/ \E px \in PointerXs, py \in PointerYs, rnd \in RandomDraws : ObjectMoving(px, py, rnd)
    \/ \E f \in ScaleFactorInputs : ObjectModified(f)
    \/ deleteSelected
    \/ clearCanvas

\* One user operation of a session of at most MaxSteps operations.
Next ==
    /\ steps < MaxSteps
    /\ steps' = steps + 1
    /\ NextCanvas
    /\ UNCHANGED pageVars
    /\ UNCHANGED storeVars

Spec == Init /\ [][Next]_vars

(***************************************************************************)
(* The tie-break scenario: a session of the operations it takes, longer    *)
(* than the sessions of Spec.                                              *)
(***************************************************************************)
NextTie ==
    /\ steps < MaxTieSteps
    /\ steps' = steps + 1
    /\ \/ \E s \in ScaleInputs : SetScale(s)
       \/ addRectangle
       \/ \E t \in SHAPE_TEMPLATES : addFromTemplate(t)
       \/ \E px \in PointerXs, py \in PointerYs, rnd \in RandomDraws : ObjectMoving(px, py, rnd)
    /\ UNCHANGED pageVars
    /\ UNCHANGED storeVars

SpecTie == Init /\ [][NextTie]_vars

(***************************************************************************)
(* EditorPage: units                                                       *)
(***************************************************************************)
\* A positive JavaScript number is m * 2^e with a significand m of exactly
\* FloatBits bits; every arithmetic operation rounds its exact result to the
\* nearest such number, ties to the even significand.
Float(m, e) == [m |-> m, e |-> e]

\* The exponent e for which 2^(FloatBits-1) <= (n / d) / 2^e < 2^FloatBits.
FloatExponent(n, d) ==
    CHOOSE e \in -12..12 :
        LET wn == n * 2^(IF e < 0 THEN -e ELSE 0)
            wd == d * 2^(IF e > 0 THEN e ELSE 0)
        IN 2^(FloatBits - 1) * wd <= wn /\ wn < 2^FloatBits * wd

\* The number nearest to n / d (n, d > 0).
FloatRound(n, d) ==
    LET e  == FloatExponent(n, d)
        wn == n * 2^(IF e < 0 THEN -e ELSE 0)
        wd == d * 2^(IF e > 0 THEN e ELSE 0)
        q  == wn \div wd
        r  == wn % wd
        up == IF 2 * r > wd \/ (2 * r = wd /\ q % 2 = 1) THEN q + 1 ELSE q
    IN IF up = 2^FloatBits THEN Float(2^(FloatBits - 1), e + 1) ELSE Float(up, e)

\* x / k and x * k for a number x and a whole number k > 0.
FloatDiv(x, k) == LET r == FloatRound(x.m, k) IN Float(r.m, r.e + x.e)

FloatMul(x, k) == LET r == FloatRound(x.m * k, 1) IN Float(r.m, r.e + x.e)

\* metersToPixels without the multiplication.
metersToPixelsUnscaled(meters, sc) == meters

\* pixelsToMeters(pixels) = pixels / currentScale.pixelsPerMeter
pixelsToMeters(pixels, sc) == FloatDiv(pixels, sc.pixelsPerMeter)

\* metersToPixels(meters) = meters * currentScale.pixelsPerMeter
metersToPixels(meters, sc) == FloatMul(meters, sc.pixelsPerMeter)

\* The pixel values converted: every significand, at three magnitudes.
PixelInputs ==
    { Float(m, e) : m \in 2^(FloatBits - 1)..(2^FloatBits - 1), e \in {-5, -2, 0} }

\* x.toFixed(0) and the hundredths of x.toFixed(2) for x = n / d >= 0: the
\* whole number nearest to x (to 100 x), the larger one on a tie.
ToFixedNearest(n, d) == (2 * n + d) \div (2 * d)

\* formatMeasurement with the comparison meters <= 1.
formatMeasurementUpToOne(meters) ==
    IF meters.num <= meters.den
      THEN ToString(ToFixedNearest(100 * meters.num, meters.den)) \o " cm"
      ELSE LET h == ToFixedNearest(100 * meters.num, meters.den)
           IN ToString(h \div 100) \o "." \o ToString((h % 100) \div 10)
                \o ToString(h % 10) \o " m"

\* formatMeasurement(meters) for meters = num / den >= 0.
formatMeasurement(meters) ==
    IF meters.num < meters.den
      THEN ToString(ToFixedNearest(100 * meters.num, meters.den)) \o " cm"
      ELSE LET h == ToFixedNearest(100 * meters.num, meters.den)
           IN ToString(h \div 100) \o "." \o ToString((h % 100) \div 10)
                \o ToString(h % 10) \o " m"

\* The lengths formatted, in metres.
MeterInputs ==
    { Frac(0, 1), Frac(1, 8), Frac(1, 2), Frac(99, 100), Frac(199, 200),
      Frac(999, 1000), Frac(1, 1), Frac(101, 100), Frac(9, 8), Frac(5, 2),
      Frac(1234, 100), Frac(70, 1) }

(***************************************************************************)
(* EditorPage: createDimensionLine                                         *)
(***************************************************************************)
\* Math.atan2(dy, dx) in whole degrees, on the directions the model draws
\* edges in (the last three are 170, -170 and 100 degrees to the nearest degree).
AngleTable ==
    { [dx |-> 10,  dy |-> 0,   deg |-> 0],
      [dx |-> 10,  dy |-> 10,  deg |-> 45],
      [dx |-> 0,   dy |-> 10,  deg |-> 90],
      [dx |-> -10, dy |-> 10,  deg |-> 135],
      [dx |-> -10, dy |-> 0,   deg |-> 180],
      [dx |-> -10, dy |-> -10, deg |-> -135],
      [dx |-> 0,   dy |-> -10, deg |-> -90],
      [dx |-> 10,  dy |-> -10, deg |-> -45],
      [dx |-> 0,   dy |-> 0,   deg |-> 0],
      [dx |-> -17, dy |-> 3,   deg |-> 170],
      [dx |-> -17, dy |-> -3,  deg |-> -170],
      [dx |-> -3,  dy |-> 17,  deg |-> 100] }

\* Math.sin of 0, 1, ..., 90 degrees, in thousandths.
SinMilliTable ==
    <<
           0, 17, 35, 52, 70, 87, 105, 122, 139, 156, 174, 191, 208,
           225, 242, 259, 276, 292, 309, 326, 342, 358, 375, 391, 407, 423,
           438, 454, 469, 485, 500, 515, 530, 545, 559, 574, 588, 602, 616,
           629, 643, 656, 669, 682, 695, 707, 719, 731, 743, 755, 766, 777,
           788, 799, 809, 819, 829, 839, 848, 857, 866, 875, 883, 891, 899,
           906, 914, 921, 927, 934, 940, 946, 951, 956, 961, 966, 970, 974,
           978, 982, 985, 988, 990, 993, 995, 996, 998, 999, 999, 1000, 1000 >>

SinMilli(deg) ==
    LET d     == ((deg % 360) + 360) % 360
        sign  == IF d <= 180 THEN 1 ELSE -1
        acute == IF d <= 90 THEN d
                 ELSE IF d <= 180 THEN 180 - d
                 ELSE IF d <= 270 THEN d - 180
                 ELSE 360 - d
    IN sign * SinMilliTable[acute + 1]

CosMilli(deg) == SinMilli(deg + 90)

\* The tangents of 0.5, 1.5, ..., 44.5 degrees, in hundred-thousandths.
TanHalfDegreeTable ==
    <<
       873, 2619, 4366, 6116, 7870, 9629, 11394, 13165, 14945,
       16734, 18534, 20345, 22169, 24008, 25862, 27732, 29621, 31530,
       33460, 35412, 37388, 39391, 41421, 43481, 45573, 47698, 49858,
       52057, 54296, 56577, 58905, 61280, 63707, 66189, 68728, 71329,
       73996, 76733, 79544, 82434, 85408, 88473, 91633, 94896, 98270 >>

\* Math.atan(n / d) to the nearest whole degree, for 0 <= n <= d: the
\* number of half-degree marks the tangent n / d lies above.
AtanDeg(n, d) ==
    Cardinality({ k \in 1..45 : 100000 * n > d * TanHalfDegreeTable[k] })

\* Math.atan2(dy, dx) to the nearest whole degree.
Atan2Deg(dy, dx) ==
    LET a    == Abs(dy)
        b    == Abs(dx)
        t    == AtanDeg(Min(a, b), a + b - Min(a, b))
        base == IF a <= b THEN t ELSE 90 - t
    IN IF dx >= 0 THEN (IF dy >= 0 THEN base ELSE -base)
       ELSE (IF dy >= 0 THEN 180 - base ELSE base - 180)

\* The edges handed to createDimensionLine: from (100, 100) in each direction.
EdgeInputs ==
    { [x1 |-> 100, y1 |-> 100, x2 |-> 100 + r.dx, y2 |-> 100 + r.dy] : r \in AngleTable }

ParentIdInputs == {"shape-1", "shape-2"}

\* adjustedAngle without the flip.
AdjustedAngleNoFlip(textAngle) == textAngle

\* const adjustedAngle = textAngle > 90 || textAngle < -90 ? textAngle + 180 : textAngle
AdjustedAngle(textAngle) ==
    IF textAngle > 90 \/ textAngle < -90 THEN textAngle + 180 ELSE textAngle

RECURSIVE SqrtBetween(_, _, _)
\* The whole square root of n, known to lie in lo..hi.
SqrtBetween(n, lo, hi) ==
    IF lo = hi THEN lo
    ELSE LET mid == (lo + hi + 1) \div 2
         IN IF mid * mid <= n THEN SqrtBetween(n, mid, hi)
            ELSE SqrtBetween(n, lo, mid - 1)

SqrtFloor(n) == SqrtBetween(n, 0, 46340)

\* Math.sqrt(dx^2 + dy^2) of an edge in hundredths of a pixel: exact on
\* horizontal and vertical edges, rounded down on the others.
EdgeLengthHundredths(e) ==
    LET dx == e.x2 - e.x1
        dy == e.y2 - e.y1
    IN IF dx = 0 THEN 100 * Abs(dy)
       ELSE IF dy = 0 THEN 100 * Abs(dx)
       ELSE SqrtFloor(10000 * (dx * dx + dy * dy))

\* EditorPage calculateDistance(x1, y1, x2, y2): the length in metres.
calculateDistanceMeters(e, sc) ==
    Frac(EdgeLengthHundredths(e), 100 * sc.pixelsPerMeter)

\* One of the six objects of a dimension annotation.
DimElement(uid, role, type, parentId, e, offset, label, angle) ==
    [PageObj(uid, type, role) EXCEPT !.isMeasurement = TRUE, !.parentId = parentId,
        !.selectable = FALSE, !.edge = e, !.offset = offset, !.label = label,
        !.angle = angle]

\* createDimensionLine with the second arrowhead left out.
DimensionElementsOneArrow(e, parentId, offset, sc, uid) ==
    LET textAngle == Atan2Deg(e.y2 - e.y1, e.x2 - e.x1)
        label     == formatMeasurement(calculateDistanceMeters(e, sc))
    IN << DimElement(uid, "dimensionLine", "line", parentId, e, offset, "", 0),
          DimElement(uid + 1, "ext1", "line", parentId, e, offset, "", 0),
          DimElement(uid + 2, "ext2", "line", parentId, e, offset, "", 0),
          DimElement(uid + 3, "arrow1", "polygon", parentId, e, offset, "", 0),
          DimElement(uid + 4, "text", "text", parentId, e, offset, label,
                     AdjustedAngle(textAngle)) >>

\* Math.sin and Math.cos of a whole angle, in thousandths.
SinCos(deg) == [deg |-> deg, sin |-> SinMilli(deg), cos |-> CosMilli(deg)]

\* The dimension line and the text label as createDimensionLine places
\* them, in thousandths of a pixel: the line is the edge shifted by
\* (offsetX, offsetY), the label sits at (dimMidX, dimMidY - 8).
PlacedDimensionLine(el, e, offset) ==
    LET sc      == SinCos(Atan2Deg(e.y2 - e.y1, e.x2 - e.x1))
        offsetX == sc.sin * offset
        offsetY == -(sc.cos * offset)
    IN [el EXCEPT !.x1 = 1000 * e.x1 + offsetX, !.y1 = 1000 * e.y1 + offsetY,
                  !.x2 = 1000 * e.x2 + offsetX, !.y2 = 1000 * e.y2 + offsetY]

PlacedText(el, e, offset) ==
    LET sc      == SinCos(Atan2Deg(e.y2 - e.y1, e.x2 - e.x1))
        dimMidX == 500 * (e.x1 + e.x2) + sc.sin * offset
        dimMidY == 500 * (e.y1 + e.y2) - sc.cos * offset
    IN [el EXCEPT !.left = dimMidX, !.top = dimMidY - 8000]

\* The elements createDimensionLine builds for an edge, in the order it adds
\* them; uid is the identity of the first.
DimensionElements(e, parentId, offset, sc, uid) ==
    LET textAngle == Atan2Deg(e.y2 - e.y1, e.x2 - e.x1)
        label     == formatMeasurement(calculateDistanceMeters(e, sc))
    IN << PlacedDimensionLine(
              DimElement(uid, "dimensionLine", "line", parentId, e, offset, "", 0),
              e, offset),
          DimElement(uid + 1, "ext1", "line", parentId, e, offset, "", 0),
          DimElement(uid + 2, "ext2", "line", parentId, e, offset, "", 0),
          DimElement(uid + 3, "arrow1", "polygon", parentId, e, offset, "", 0),
          DimElement(uid + 4, "arrow2", "polygon", parentId, e, offset, "", 0),
          PlacedText(DimElement(uid + 5, "text", "text", parentId, e, offset, label,
                                AdjustedAngle(textAngle)),
                     e, offset) >>

IsMeasurementObj(o) == o.isMeasurement

\* createDimensionLine(x1, y1, x2, y2, parentId) with the canvas in place
\* and the default offset of 20.
createDimensionLine(e, parentId) ==
    LET elements == DimensionElements(e, parentId, 20, currentScale, nextUid)
    IN /\ Len(SelectSeq(pcanvas, IsMeasurementObj)) < 6 * MaxDimLines
       /\ pcanvas' = pcanvas \o elements
       /\ nextUid' = nextUid + Len(elements)
       /\ lastDim' = [done |-> TRUE, edge |-> e, parentId |-> parentId,
                      rawAngle |-> Atan2Deg(e.y2 - e.y1, e.x2 - e.x1),
                      before |-> pcanvas, elements |-> elements]
       /\ UNCHANGED <<currentScale, lastConv, lastFmt, registry, pactive, activeTool,
                      isDrawing, drawingStart, tempShape, lastEvt, drawVars, bound>>

NextPage ==
    /\ \E e \in EdgeInputs, id \in ParentIdInputs : createDimensionLine(e, id)
    /\ UNCHANGED canvasVars
    /\ UNCHANGED storeVars

SpecPage == Init /\ [][NextPage]_vars

(***************************************************************************)
(* EditorPage: shapes and their annotations                                *)
(***************************************************************************)
\* Pointer positions of the drawing gestures.
PagePoints == { [x |-> 100, y |-> 100], [x |-> 110, y |-> 100], [x |-> 110, y |-> 110] }

ToolInputs == {"select", "line", "measure", "rectangle", "circle"}

\* const templates = [...]: the house and the terrace.
templates ==
    { [id |-> "house", label |-> "House", width |-> 12, height |-> 8],
      [id |-> "terrace", label |-> "Terrace", width |-> 6, height |-> 4] }

\* The displacement of a drag and the factors of a scaling gesture.
MoveOffsets == { [x |-> 10, y |-> 0] }

PageScaleFactors == { <<2, 1>> }

Uids(elements) == { elements[k].uid : k \in 1..Len(elements) }

\* canvas.remove(o) for every object o whose identity is in gone.
RemoveUids(canvas, gone) ==
    LET Stays(o) == o.uid \notin gone IN SelectSeq(canvas, Stays)

\* measurementLabelsRef.current.get(id), <<>> for undefined.
RegistryGet(reg, id) ==
    IF \E r \in reg : r.id = id THEN (CHOOSE r \in reg : r.id = id).els ELSE <<>>

\* measurementLabelsRef.current.set(id, els)
RegistrySet(reg, id, els) ==
    { r \in reg : r.id # id } \cup { [id |-> id, els |-> els] }

\* removeMeasurements(id)
removeMeasurements(canvas, reg, id) ==
    [canvas   |-> RemoveUids(canvas, Uids(RegistryGet(reg, id))),
     registry |-> { r \in reg : r.id # id }]

Edge(x1, y1, x2, y2) == [x1 |-> x1, y1 |-> y1, x2 |-> x2, y2 |-> y2]

\* addRectMeasurements(rect, id): the elements pushed to measurements.
addRectMeasurements(rect, id, sc, uid) ==
    LET left   == rect.left
        top    == rect.top
        width  == rect.width * OrOne(rect.scaleX)
        height == rect.height * OrOne(rect.scaleY)
    IN DimensionElements(Edge(left, top + height, left + width, top + height),
                         id, 25, sc, uid)
       \o DimensionElements(Edge(left + width, top, left + width, top + height),
                            id, 25, sc, uid + 6)

\* addLineMeasurement(line, id)
addLineMeasurement(line, id, sc, uid) ==
    DimensionElements(Edge(line.x1, line.y1, line.x2, line.y2), id, 20, sc, uid)

\* polygon.calcTransformMatrix() applied to a point of an unrotated
\* polygon: scaled and moved to the polygon's centre.
TransformPoint(polygon, pt) ==
    [x |-> (polygon.left + polygon.scaleX * pt.x) \div polygon.unit,
     y |-> (polygon.top + polygon.scaleY * pt.y) \div polygon.unit]

\* addCircleMeasurements(circle, id): the diameter line and its label (the
\* text after the diameter sign), in the circle's unit.
addCircleMeasurements(circle, id, sc, uid) ==
    LET centerX == circle.left + circle.radius
        centerY == circle.top + circle.radius
        radius  == circle.radius * OrOne(circle.scaleX)
        diameter == Frac(radius * 2, circle.unit * sc.pixelsPerMeter)
        Annotation(u, type, role) ==
            [PageObj(u, type, role) EXCEPT !.isMeasurement = TRUE, !.parentId = id,
                !.selectable = FALSE, !.unit = circle.unit]
    IN << [Annotation(uid, "line", "diameterLine") EXCEPT
              !.x1 = centerX - radius, !.y1 = centerY,
              !.x2 = centerX + radius, !.y2 = centerY],
          [Annotation(uid + 1, "text", "diameterText") EXCEPT
              !.left = centerX, !.top = centerY - radius - 20 * circle.unit,
              !.label = formatMeasurement(diameter)] >>

RECURSIVE PolygonEdgeElements(_, _, _, _, _)
\* The loop of addPolygonMeasurements from edge i on.
PolygonEdgeElements(polygon, i, id, sc, uid) ==
    LET points == polygon.points
        n      == Len(points)
    IN IF i > n THEN <<>>
       ELSE LET t1 == TransformPoint(polygon, points[i])
                t2 == TransformPoint(polygon, points[(i % n) + 1])
            IN DimensionElements(Edge(t1.x, t1.y, t2.x, t2.y), id, 25, sc, uid)
               \o PolygonEdgeElements(polygon, i + 1, id, sc, uid + 6)

\* addPolygonMeasurements(polygon, id): whether the registry entry is set,
\* and the elements added.
addPolygonMeasurements(polygon, id, sc, uid) ==
    IF Len(polygon.points) < 2
      THEN [set |-> FALSE, els |-> <<>>]
      ELSE [set |-> TRUE, els |-> PolygonEdgeElements(polygon, 1, id, sc, uid)]

\* The branch of updateObjectMeasurements on obj.type.
MeasurementsFor(obj, id, sc, uid) ==
    IF obj.type = "rect"
      THEN [set |-> TRUE, els |-> addRectMeasurements(obj, id, sc, uid)]
    ELSE IF obj.type = "polygon" THEN addPolygonMeasurements(obj, id, sc, uid)
    ELSE IF obj.type = "line"
      THEN [set |-> TRUE, els |-> addLineMeasurement(obj, id, sc, uid)]
    ELSE IF obj.type = "circle"
      THEN [set |-> TRUE, els |-> addCircleMeasurements(obj, id, sc, uid)]
    ELSE [set |-> FALSE, els |-> <<>>]

\* What add*Measurements leaves: the elements on the canvas and under id.
WithMeasurements(canvas, reg, id, m, uid) ==
    [canvas   |-> canvas \o m.els,
     registry |-> IF m.set THEN RegistrySet(reg, id, m.els) ELSE reg,
     uid      |-> uid + Len(m.els)]

\* updateObjectMeasurements(obj)
updateObjectMeasurements(canvas, reg, obj, sc, uid) ==
    IF obj.id = "" THEN [canvas |-> canvas, registry |-> reg, uid |-> uid]
    ELSE LET r == removeMeasurements(canvas, reg, obj.id)
         IN WithMeasurements(r.canvas, r.registry, obj.id,
                             MeasurementsFor(obj, obj.id, sc, uid), uid)

IsShape(o) == o.id # ""

ShapeCount == Len(SelectSeq(pcanvas, IsShape))

PolygonTools == {"polygon", "parcel"}

RECURSIVE PolygonPreviewFrom(_, _, _, _)
\* The preview effect's loop over polygonPoints from index i on: a circle
\* on each point and, from the second point on, the segment from the point
\* before it and the segment's measurement label.
PolygonPreviewFrom(points, i, sc, uid) ==
    IF i > Len(points) THEN <<>>
    ELSE LET Preview(u, type) ==
                 [PageObj(u, type, "polygonPreview") EXCEPT !.selectable = FALSE]
             pt     == points[i]
             circle == [Preview(uid, "circle") EXCEPT
                           !.left = pt.x - 5, !.top = pt.y - 5, !.radius = 5]
             prev   == points[i - 1]
             seg    == Edge(prev.x, prev.y, pt.x, pt.y)
             line   == [Preview(uid + 1, "line") EXCEPT
                           !.x1 = prev.x, !.y1 = prev.y, !.x2 = pt.x, !.y2 = pt.y]
             text   == [Preview(uid + 2, "text") EXCEPT
                           !.edge = seg,
                           !.label = formatMeasurement(calculateDistanceMeters(seg, sc))]
             here   == IF i > 1 THEN <<circle, line, text>> ELSE <<circle>>
         IN here \o PolygonPreviewFrom(points, i + 1, sc, uid + Len(here))

\* The polygon preview effect, run on the state given: the old preview
\* objects are removed; with a polygon tool and points placed, the points,
\* the segments and the line from the last point to the pointer are drawn.
PreviewEffect(canvas, tool, points, mouse, sc, uid) ==
    LET NotPreview(o) == o.role # "polygonPreview"
        kept   == SelectSeq(canvas, NotPreview)
        marks  == PolygonPreviewFrom(points, 1, sc, uid)
        last   == points[Len(points)]
        rubber == [PageObj(uid + Len(marks), "line", "polygonPreview") EXCEPT
                      !.selectable = FALSE, !.x1 = last.x, !.y1 = last.y,
                      !.x2 = mouse.x, !.y2 = mouse.y]
        drawn  == IF tool \in PolygonTools /\ Len(points) > 0
                    THEN Append(marks, rubber) ELSE <<>>
    IN [canvas |-> kept \o drawn, uid |-> uid + Len(drawn)]

\* The scale selector's onChange: setCurrentScale(scale). drawGrid and
\* updateObjectMeasurements are rebuilt for the new scale and both are
\* dependencies of the canvas init effect: its cleanup disposes the canvas
\* and the effect runs again on a fresh one; the preview effect then draws
\* on it. measurementLabelsRef and the drawing state are kept.
SelectScale(i) ==
    LET fresh == PreviewEffect(FreshPageCanvas(SCALES[i], showGrid), activeTool,
                               polygonPoints, mousePos, SCALES[i], nextUid)
    IN /\ SCALES[i] # currentScale
       /\ currentScale' = SCALES[i]
       /\ pcanvas' = fresh.canvas
       /\ nextUid' = fresh.uid
       /\ pactive' = 0
       /\ lastEvt' = [kind |-> "scale", before |-> pcanvas]
       /\ lastConv' = NoConv
       /\ lastFmt' = NoFmt
       /\ UNCHANGED <<lastDim, registry, activeTool, isDrawing, drawingStart,
                      tempShape, drawVars>>

\* The grid button's onClick: setShowGrid(!showGrid). showGrid is a
\* dependency of the canvas init effect, which disposes the canvas and
\* builds a fresh one; no dependency of the other effects has changed.
ToggleShowGrid ==
    /\ showGrid' = ~showGrid
    /\ pcanvas' = FreshPageCanvas(currentScale, ~showGrid)
    /\ pactive' = 0
    /\ lastEvt' = [kind |-> "grid", before |-> pcanvas]
    /\ UNCHANGED <<registry, nextUid, activeTool, isDrawing, drawingStart, tempShape,
                   polygonPoints, mousePos>>

\* The effect that binds the mouse handlers, after an operation: it runs
\* again when a dependency has changed (the drawing state, or the callbacks
\* rebuilt for a new scale) and binds to the canvas then in place; handlers
\* left on a disposed canvas receive nothing.
SyncRebind ==
    bound' =
        IF <<activeTool', isDrawing', drawingStart', tempShape', currentScale'>>
             # <<activeTool, isDrawing, drawingStart, tempShape, currentScale>>
          THEN Binding(activeTool', isDrawing', drawingStart', tempShape')
        ELSE IF showGrid' # showGrid THEN [bound EXCEPT !.live = FALSE]
        ELSE bound

\* The test `isDrawing && drawingStart` of the handlers, as bound.
Drawing(b) == b.isDrawing /\ b.drawingStart # NoPoint

\* addTemplate(templateId)
addTemplate(t) ==
    LET shapeId  == t.id \o "-" \o ToString(nextUid)
        widthPx  == t.width * currentScale.pixelsPerMeter
        heightPx == t.height * currentScale.pixelsPerMeter
        cx       == PageWidth \div 2
        cy       == PageHeight \div 2
        rect     == [PageObj(nextUid, "rect", "shape") EXCEPT !.id = shapeId,
                        !.left = cx - widthPx \div 2, !.top = cy - heightPx \div 2,
                        !.width = widthPx, !.height = heightPx]
        label    == [PageObj(nextUid + 1, "text", "label") EXCEPT
                        !.isMeasurement = TRUE, !.parentId = shapeId,
                        !.selectable = FALSE, !.left = cx, !.top = cy,
                        !.label = t.label]
        done     == WithMeasurements(pcanvas \o <<rect, label>>, registry, shapeId,
                        [set |-> TRUE,
                         els |-> addRectMeasurements(rect, shapeId, currentScale,
                                                     nextUid + 2)],
                        nextUid + 2)
    IN /\ ShapeCount < MaxShapes
       /\ pcanvas' = done.canvas
       /\ registry' = done.registry
       /\ nextUid' = done.uid
       /\ pactive' = rect.uid
       /\ lastEvt' = [kind |-> "addTemplate", target |-> rect.uid, before |-> pcanvas]
       /\ UNCHANGED <<activeTool, isDrawing, drawingStart, tempShape, drawVars>>

\* const points = [...] of createSampleParcel
SampleParcelPoints ==
    << [x |-> -125, y |-> -150], [x |-> 100, y |-> -175], [x |-> 150, y |-> -50],
       [x |-> 125, y |-> 125], [x |-> -50, y |-> 150], [x |-> -150, y |-> 50] >>

\* createSampleParcel()
createSampleParcel ==
    LET shapeId == "parcel-sample-" \o ToString(nextUid)
        cx      == PageWidth \div 2
        cy      == PageHeight \div 2
        polygon == [PageObj(nextUid, "polygon", "shape") EXCEPT !.id = shapeId,
                       !.left = cx, !.top = cy, !.points = SampleParcelPoints]
        done    == WithMeasurements(Append(pcanvas, polygon), registry, shapeId,
                       addPolygonMeasurements(polygon, shapeId, currentScale,
                                              nextUid + 1),
                       nextUid + 1)
        label   == [PageObj(done.uid, "text", "label") EXCEPT
                       !.isMeasurement = TRUE, !.parentId = shapeId,
                       !.selectable = FALSE, !.left = cx, !.top = cy,
                       !.label = "PARCEL A-123"]
    IN /\ ShapeCount < MaxShapes
       /\ pcanvas' = Append(done.canvas, label)
       /\ registry' = done.registry
       /\ nextUid' = done.uid + 1
       /\ lastEvt' = [kind |-> "createSampleParcel", target |-> polygon.uid,
                      before |-> pcanvas]
       /\ UNCHANGED <<pactive, activeTool, isDrawing, drawingStart, tempShape, drawVars>>

\* handleToolSelect(tool)
handleToolSelect(tool) ==
    LET shown == PreviewEffect(pcanvas, tool, <<>>, mousePos, currentScale, nextUid)
    IN /\ tool # activeTool
       /\ activeTool' = tool
       /\ polygonPoints' = <<>>
       /\ pcanvas' = shown.canvas
       /\ nextUid' = shown.uid
       /\ lastEvt' = [kind |-> "tool"]
       /\ UNCHANGED <<registry, pactive, isDrawing, drawingStart, tempShape,
                      mousePos, showGrid>>

\* handleMouseDown with the pointer at pt: a polygon tool places a point
\* (and the preview effect draws it), a dragging tool starts its gesture.
handleMouseDown(pt) ==
    LET points == Append(polygonPoints, pt)
        shown  == PreviewEffect(pcanvas, activeTool, points, mousePos, currentScale,
                                nextUid)
    IN /\ bound.live
       /\ bound.activeTool \notin {"select", "pan"}
       /\ IF bound.activeTool \in PolygonTools
            THEN /\ Len(polygonPoints) < MaxPolygonPoints
                 /\ polygonPoints' = points
                 /\ pcanvas' = shown.canvas
                 /\ nextUid' = shown.uid
                 /\ UNCHANGED <<isDrawing, drawingStart>>
            ELSE /\ ShapeCount < MaxShapes
                 /\ isDrawing' = TRUE
                 /\ drawingStart' = pt
                 /\ UNCHANGED <<polygonPoints, pcanvas, nextUid>>
       /\ lastEvt' = [kind |-> "mouse:down", before |-> pcanvas]
       /\ UNCHANGED <<registry, pactive, activeTool, tempShape, mousePos, showGrid>>

\* The line a line or measure gesture draws from start to pt.
GestureLine(uid, start, pt) ==
    [PageObj(uid, "line", "shape") EXCEPT
        !.x1 = start.x, !.y1 = start.y, !.x2 = pt.x, !.y2 = pt.y,
        !.left = Min(start.x, pt.x), !.top = Min(start.y, pt.y),
        !.width = Abs(pt.x - start.x), !.height = Abs(pt.y - start.y)]

\* The rectangle a rectangle gesture draws from start to pt.
GestureRect(uid, start, pt) ==
    [PageObj(uid, "rect", "shape") EXCEPT
        !.left = Min(start.x, pt.x), !.top = Min(start.y, pt.y),
        !.width = Abs(pt.x - start.x), !.height = Abs(pt.y - start.y)]

\* The circle a circle gesture draws around start through pt, in
\* hundredths of a pixel.
GestureCircle(uid, start, pt) ==
    LET radiusPx == EdgeLengthHundredths(Edge(start.x, start.y, pt.x, pt.y))
    IN [PageObj(uid, "circle", "shape") EXCEPT !.unit = 100,
           !.left = 100 * start.x - radiusPx, !.top = 100 * start.y - radiusPx,
           !.radius = radiusPx, !.width = 2 * radiusPx, !.height = 2 * radiusPx]

\* The shape a dragging tool draws from start to pt.
GestureShape(tool, uid, start, pt) ==
    IF tool \in {"line", "measure"} THEN <<GestureLine(uid, start, pt)>>
    ELSE IF tool = "rectangle" THEN <<GestureRect(uid, start, pt)>>
    ELSE IF tool = "circle" THEN <<GestureCircle(uid, start, pt)>>
    ELSE <<>>

\* handleMouseMove with the pointer at pt, as bound: mousePos is set; while
\* a shape is being drawn the preview the handler knows of is removed and a
\* new one is added; the preview effect runs for the new mousePos.
handleMouseMove(pt) ==
    LET cleared == RemoveUids(pcanvas, {bound.tempShape} \ {0})
        shape   == GestureShape(bound.activeTool, nextUid, bound.drawingStart, pt)
        preview == [k \in 1..Len(shape) |->
                       [shape[k] EXCEPT !.role = "preview", !.selectable = FALSE]]
        drawn   == IF Drawing(bound) THEN cleared \o preview ELSE pcanvas
        uid     == IF Drawing(bound) THEN nextUid + Len(preview) ELSE nextUid
        shown   == PreviewEffect(drawn, activeTool, polygonPoints, pt, currentScale, uid)
    IN /\ bound.live
       /\ Drawing(bound) \/ activeTool \in PolygonTools
       /\ mousePos' = pt
       /\ pcanvas' = shown.canvas
       /\ nextUid' = shown.uid
       /\ tempShape' = IF Drawing(bound) /\ preview # <<>> THEN nextUid ELSE tempShape
       /\ lastEvt' = [kind |-> "mouse:move", before |-> pcanvas]
       /\ UNCHANGED <<registry, pactive, activeTool, isDrawing, drawingStart,
                      polygonPoints, showGrid>>

\* Whether handleMouseUp commits the shape it has built.
Committed(tool, shape) ==
    \/ tool \in {"line", "measure"}
    \/ tool = "rectangle" /\ shape.width > 5 /\ shape.height > 5
    \/ tool = "circle" /\ shape.radius > 5 * shape.unit

\* handleMouseUp with the pointer at pt, as bound: nothing is done unless
\* the handler was bound while a shape was being drawn.
handleMouseUp(pt) ==
    LET cleared == RemoveUids(pcanvas, {bound.tempShape} \ {0})
        shapeId == "shape-" \o ToString(nextUid)
        built   == GestureShape(bound.activeTool, nextUid, bound.drawingStart, pt)
        shape   == [built[1] EXCEPT !.id = shapeId]
        done    ==
            IF built # <<>> /\ Committed(bound.activeTool, built[1])
              THEN WithMeasurements(Append(cleared, shape), registry, shapeId,
                       MeasurementsFor(shape, shapeId, currentScale, nextUid + 1),
                       nextUid + 1)
              ELSE [canvas |-> cleared, registry |-> registry, uid |-> nextUid]
    IN /\ bound.live
       /\ IF Drawing(bound)
            THEN /\ pcanvas' = done.canvas
                 /\ registry' = done.registry
                 /\ nextUid' = done.uid
                 /\ tempShape' = IF bound.tempShape # 0 THEN 0 ELSE tempShape
                 /\ isDrawing' = FALSE
                 /\ drawingStart' = NoPoint
                 /\ lastEvt' = [kind |-> "mouse:up", tool |-> bound.activeTool,
                                start |-> bound.drawingStart, end |-> pt,
                                before |-> cleared, target |-> nextUid,
                                committed |-> Len(done.canvas) > Len(cleared)]
            ELSE /\ lastEvt' = [kind |-> "mouse:up", tool |-> bound.activeTool,
                                start |-> bound.drawingStart, end |-> pt,
                                before |-> pcanvas, target |-> 0,
                                committed |-> FALSE]
                 /\ UNCHANGED <<pcanvas, registry, nextUid, tempShape, isDrawing,
                                drawingStart>>
       /\ UNCHANGED <<pactive, activeTool, drawVars>>

\* The sum of the x (of the y) of the points.
RECURSIVE SumX(_, _)
SumX(points, i) == IF i > Len(points) THEN 0 ELSE points[i].x + SumX(points, i + 1)

RECURSIVE SumY(_, _)
SumY(points, i) == IF i > Len(points) THEN 0 ELSE points[i].y + SumY(points, i + 1)

\* handleDoubleClick's test with two points.
PolygonCompleteFromTwo(tool, points) == tool \in PolygonTools /\ Len(points) >= 2

\* handleDoubleClick's test: a polygon tool and at least three points.
PolygonComplete(tool, points) == tool \in PolygonTools /\ Len(points) >= 3

\* handleDoubleClick: the polygon of the points placed, its vertices taken
\* relative to their centroid (coordinates in 1/n of a pixel for n points).
handleDoubleClick ==
    LET n       == Len(polygonPoints)
        shapeId == "parcel-" \o ToString(nextUid)
        polygon == [PageObj(nextUid, "polygon", "shape") EXCEPT !.id = shapeId,
                       !.unit = n,
                       !.left = SumX(polygonPoints, 1), !.top = SumY(polygonPoints, 1),
                       !.points = [k \in 1..n |->
                           [x |-> n * polygonPoints[k].x - SumX(polygonPoints, 1),
                            y |-> n * polygonPoints[k].y - SumY(polygonPoints, 1)]]]
        done    == WithMeasurements(Append(pcanvas, polygon), registry, shapeId,
                       addPolygonMeasurements(polygon, shapeId, currentScale,
                                              nextUid + 1),
                       nextUid + 1)
        shown   == PreviewEffect(done.canvas, activeTool, <<>>, mousePos, currentScale,
                                 done.uid)
    IN /\ bound.live
       /\ IF PolygonComplete(activeTool, polygonPoints)
            THEN /\ pcanvas' = shown.canvas
                 /\ registry' = done.registry
                 /\ nextUid' = shown.uid
                 /\ polygonPoints' = <<>>
            ELSE UNCHANGED <<pcanvas, registry, nextUid, polygonPoints>>
       /\ lastEvt' = [kind |-> "mouse:dblclick", tool |-> activeTool,
                      points |-> polygonPoints, target |-> nextUid, before |-> pcanvas]
       /\ UNCHANGED <<pactive, activeTool, isDrawing, drawingStart, tempShape,
                      mousePos, showGrid>>

\* A click on the selectable object at index k: it becomes the active object.
SelectPageObject(k) ==
    /\ pcanvas[k].selectable
    /\ pactive # pcanvas[k].uid
    /\ pactive' = pcanvas[k].uid
    /\ lastEvt' = [kind |-> "select"]
    /\ UNCHANGED <<pcanvas, registry, nextUid, activeTool, isDrawing, drawingStart,
                   tempShape, drawVars>>

\* handleDelete() with an active object.
handleDelete ==
    LET k    == CHOOSE k \in 1..Len(pcanvas) : pcanvas[k].uid = pactive
        obj  == pcanvas[k]
        gone == IF obj.id # "" THEN removeMeasurements(pcanvas, registry, obj.id)
                ELSE [canvas |-> pcanvas, registry |-> registry]
    IN /\ pactive # 0
       /\ \E j \in 1..Len(pcanvas) : pcanvas[j].uid = pactive
       /\ pcanvas' = RemoveUids(gone.canvas, {obj.uid})
       /\ registry' = gone.registry
       /\ pactive' = 0
       /\ lastEvt' = [kind |-> "delete", target |-> obj.uid, id |-> obj.id,
                      before |-> pcanvas]
       /\ UNCHANGED <<nextUid, activeTool, isDrawing, drawingStart, tempShape, drawVars>>

\* handleClearAll()
handleClearAll ==
    LET IsGridLine(o) == o.isGrid
    IN /\ pcanvas' = SelectSeq(pcanvas, IsGridLine)
       /\ registry' = {}
       /\ pactive' = 0
       /\ lastEvt' = [kind |-> "clear", before |-> pcanvas]
       /\ UNCHANGED <<nextUid, activeTool, isDrawing, drawingStart, tempShape, drawVars>>

\* The canvas with the object at index k replaced by obj and the handler
\* canvas.on(kind, e => updateObjectMeasurements(e.target)) run on it.
ShapeEvent(kind, k, obj) ==
    LET done == updateObjectMeasurements([pcanvas EXCEPT ![k] = obj], registry, obj,
                                         currentScale, nextUid)
    IN /\ pcanvas' = done.canvas
       /\ registry' = done.registry
       /\ nextUid' = done.uid
       /\ pactive' = obj.uid
       /\ lastEvt' = [kind |-> kind, target |-> obj.uid, before |-> pcanvas]
       /\ UNCHANGED <<activeTool, isDrawing, drawingStart, tempShape, drawVars>>

\* object:moving on the object at index k, dragged by d. fabric moves left
\* and top; the x1, y1, x2, y2 of a line are left as constructed.
PageObjectMoving(k, d) ==
    /\ pcanvas[k].selectable
    /\ ShapeEvent("object:moving", k,
                  [pcanvas[k] EXCEPT !.left = @ + d.x * pcanvas[k].unit,
                                     !.top = @ + d.y * pcanvas[k].unit])

\* object:scaling on the object at index k, to the factors f.
PageObjectScaling(k, f) ==
    /\ pcanvas[k].selectable
    /\ <<pcanvas[k].scaleX, pcanvas[k].scaleY>> # f
    /\ ShapeEvent("object:scaling", k,
                  [pcanvas[k] EXCEPT !.scaleX = f[1], !.scaleY = f[2]])

\* object:modified on the object at index k, at the end of a gesture.
PageObjectModified(k) ==
    /\ pcanvas[k].selectable
    /\ ShapeEvent("object:modified", k, pcanvas[k])

(***************************************************************************)
(* EditorPage: units, as operations                                        *)
(***************************************************************************)
\* metersToPixels(pixelsToMeters(p)) at the current scale.
ConvertRoundTrip(p) ==
    LET meters == pixelsToMeters(p, currentScale)
    IN /\ lastConv' = [done |-> TRUE, pixels |-> p, scale |-> currentScale,
                       meters |-> meters, back |-> metersToPixels(meters, currentScale)]
       /\ lastFmt' = NoFmt
       /\ UNCHANGED <<pcanvas, lastDim, currentScale, shapeVars>>

\* formatMeasurement(meters).
FormatValue(meters) ==
    /\ lastFmt' = [done |-> TRUE, meters |-> meters, text |-> formatMeasurement(meters)]
    /\ lastConv' = NoConv
    /\ UNCHANGED <<pcanvas, lastDim, currentScale, shapeVars>>

NextUnits ==
    /\ \/ \E i \in 1..Len(SCALES) : SelectScale(i) /\ SyncRebind
       \/ \E p \in PixelInputs : ConvertRoundTrip(p)
       \/ \E m \in MeterInputs : FormatValue(m)
    /\ UNCHANGED canvasVars
    /\ UNCHANGED storeVars

SpecUnits == Init /\ [][NextUnits]_vars

(***************************************************************************)
(* EditorPage: a drawing session                                           *)
(***************************************************************************)
\* One user operation on the page, of a session of at most MaxShapeSteps;
\* the effects have run before the next one.
NextShapes ==
    /\ steps < MaxShapeSteps
    /\ steps' = steps + 1
    /\ \/ \E i \in 1..Len(SCALES) : SelectScale(i)
       \/ \E t \in templates : addTemplate(t) /\ UNCHANGED unitVars
       \/ \E tool \in ToolInputs : handleToolSelect(tool) /\ UNCHANGED unitVars
       \/ \E pt \in PagePoints : handleMouseDown(pt) /\ UNCHANGED unitVars
       \/ \E pt \in PagePoints : handleMouseMove(pt) /\ UNCHANGED unitVars
       \/ \E pt \in PagePoints : handleMouseUp(pt) /\ UNCHANGED unitVars
       \/ \E k \in 1..Len(pcanvas), d \in MoveOffsets :
             PageObjectMoving(k, d) /\ UNCHANGED unitVars
       \/ \E k \in 1..Len(pcanvas), f \in PageScaleFactors :
             PageObjectScaling(k, f) /\ UNCHANGED unitVars
       \/ \E k \in 1..Len(pcanvas) : PageObjectModified(k) /\ UNCHANGED unitVars
    /\ SyncRebind
    /\ lastDim' = lastDim
    /\ UNCHANGED editorVars
    /\ UNCHANGED storeVars

SpecShapes == Init /\ [][NextShapes]_vars

(***************************************************************************)
(* EditorPage: shapes added, deleted and redrawn                           *)
(***************************************************************************)
\* One toolbar or canvas operation, of a session of at most
\* MaxRegistrySteps.
NextRegistry ==
    /\ steps < MaxRegistrySteps
    /\ steps' = steps + 1
    /\ \/ \E i \in 1..Len(SCALES) : SelectScale(i)
       \/ \E t \in templates : addTemplate(t) /\ UNCHANGED unitVars
       \/ createSampleParcel /\ UNCHANGED unitVars
       \/ \E k \in 1..Len(pcanvas) : SelectPageObject(k) /\ UNCHANGED unitVars
       \/ handleDelete /\ UNCHANGED unitVars
       \/ handleClearAll /\ UNCHANGED unitVars
       \/ ToggleShowGrid /\ UNCHANGED unitVars
       \/ \E k \in 1..Len(pcanvas), d \in MoveOffsets :
             PageObjectMoving(k, d) /\ UNCHANGED unitVars
       \/ \E k \in 1..Len(pcanvas), f \in PageScaleFactors :
             PageObjectScaling(k, f) /\ UNCHANGED unitVars
    /\ SyncRebind
    /\ lastDim' = lastDim
    /\ UNCHANGED editorVars
    /\ UNCHANGED storeVars

SpecRegistry == Init /\ [][NextRegistry]_vars

(***************************************************************************)
(* EditorPage: events delivered before the handlers are bound again        *)
(***************************************************************************)
\* The effect that binds the mouse handlers runs: the handlers of the
\* current render replace the ones bound before.
RebindMouseHandlers ==
    /\ bound # Binding(activeTool, isDrawing, drawingStart, tempShape)
    /\ bound' = Binding(activeTool, isDrawing, drawingStart, tempShape)
    /\ UNCHANGED <<pcanvas, registry, nextUid, pactive, activeTool, isDrawing,
                   drawingStart, tempShape, lastEvt, drawVars>>

\* One mouse event or tool selection, delivered to the handlers as they
\* are bound, or the effect that binds them anew; at most MaxGestureSteps.
NextGesture ==
    /\ steps < MaxGestureSteps
    /\ steps' = steps + 1
    /\ \/ \E tool \in ToolInputs : handleToolSelect(tool) /\ UNCHANGED bound
       \/ \E pt \in PagePoints : handleMouseDown(pt) /\ UNCHANGED bound
       \/ \E pt \in PagePoints : handleMouseMove(pt) /\ UNCHANGED bound
       \/ \E pt \in PagePoints : handleMouseUp(pt) /\ UNCHANGED bound
       \/ RebindMouseHandlers
    /\ UNCHANGED <<lastDim, unitVars, editorVars>>
    /\ UNCHANGED storeVars

SpecGesture == Init /\ [][NextGesture]_vars

(***************************************************************************)
(* EditorPage: drawing a polygon point by point                            *)
(***************************************************************************)
PolygonToolInputs == {"select", "polygon", "parcel"}

\* One user operation while a polygon is drawn, of at most MaxPolygonSteps.
NextPolygon ==
    /\ steps < MaxPolygonSteps
    /\ steps' = steps + 1
    /\ \/ \E tool \in PolygonToolInputs : handleToolSelect(tool)
       \/ \E pt \in PagePoints : handleMouseDown(pt)
       \/ \E pt \in PagePoints : handleMouseMove(pt)
       \/ handleDoubleClick
    /\ UNCHANGED <<lastDim, unitVars, editorVars>>
    /\ SyncRebind
    /\ UNCHANGED storeVars

SpecPolygon == Init /\ [][NextPolygon]_vars

(***************************************************************************)
(* Polygons of any vertex count handed to the two measuring functions      *)
(***************************************************************************)
\* The vertex lists: none, one, two (distinct and coincident) and three.
VertexInputs ==
    { <<>>,
      << [x |-> 0, y |-> 0] >>,
      << [x |-> 0, y |-> 0], [x |-> 10, y |-> 0] >>,
      << [x |-> 0, y |-> 0], [x |-> 0, y |-> 0] >>,
      << [x |-> 0, y |-> 0], [x |-> 10, y |-> 0], [x |-> 0, y |-> 10] >> }

\* EditorPage addPolygonMeasurements(polygon, id) on a polygon with the
\* vertices points, centred at (200, 200).
CallAddPolygonMeasurements(points, id) ==
    LET polygon == [PageObj(nextUid, "polygon", "shape") EXCEPT !.id = id,
                       !.left = 200, !.top = 200, !.points = points]
        done    == WithMeasurements(pcanvas, registry, id,
                       addPolygonMeasurements(polygon, id, currentScale, nextUid + 1),
                       nextUid + 1)
    IN /\ pcanvas' = done.canvas
       /\ registry' = done.registry
       /\ nextUid' = done.uid
       /\ lastEvt' = [kind |-> "addPolygonMeasurements", points |-> points, id |-> id,
                      before |-> pcanvas, registryBefore |-> registry]
       /\ UNCHANGED <<pactive, activeTool, isDrawing, drawingStart, tempShape,
                      lastDim, unitVars, drawVars, bound>>
       /\ UNCHANGED editorVars

\* CanvasEditor updateMeasurements(obj) on a polygon with the vertices points.
CallUpdateMeasurements(points) ==
    /\ Measure(Obj(0, "polygon", 0, 0, 0, 0, TRUE, points), "call")
    /\ UNCHANGED <<scale, gridEnabled, gridSettings, captured, objects, active,
                   nextId, alignmentGuides, dimensionLabels, lastTick, placed>>
    /\ UNCHANGED pageVars

NextPoly ==
    /\ steps < MaxPolySteps
    /\ steps' = steps + 1
    /\ \/ \E points \in VertexInputs, id \in ParentIdInputs :
             CallAddPolygonMeasurements(points, id)
       \/ \E points \in VertexInputs : CallUpdateMeasurements(points)
    /\ UNCHANGED storeVars

SpecPoly == Init /\ [][NextPoly]_vars

(***************************************************************************)
(* useProjectStore: the projects                                           *)
(***************************************************************************)
\* The elements, documents and photos handed to the store.
ElementInputs ==
    { [id |-> "e1", name |-> "House"], [id |-> "e2", name |-> "Pool"] }

ElementUpdates == { [name |-> "Garage"] }

ProjectUpdates == { [name |-> "Plot B"] }

DocumentInputs == {"plu.pdf"}

PhotoInputs == {"photo-1"}

\* createProject(name, description): the new project is appended to
\* projects and becomes the current one. The dates are not modelled.
createProject(name) ==
    LET newProject == [NoProject EXCEPT !.id = Len(projects) + 1, !.name = name]
    IN /\ Len(projects) < MaxProjects
       /\ projects' = Append(projects, newProject)
       /\ currentProject' = newProject

\* setCurrentProject(project) with one of the projects of the list.
setCurrentProject(k) ==
    /\ currentProject' = projects[k]
    /\ UNCHANGED projects

\* set((state) => ({currentProject: state.currentProject ? next : null})):
\* only currentProject is replaced.
SetCurrent(next) ==
    /\ currentProject' = IF currentProject # NoProject THEN next ELSE NoProject
    /\ UNCHANGED projects

\* updateProject(updates)
updateProject(updates) == SetCurrent([currentProject EXCEPT !.name = updates.name])

\* addElement(element)
addElement(element) ==
    /\ Len(currentProject.elements) < MaxElements
    /\ SetCurrent([currentProject EXCEPT !.elements = Append(@, element)])

\* updateElement(id, updates)
updateElement(id, updates) ==
    LET elements == currentProject.elements
    IN SetCurrent([currentProject EXCEPT !.elements =
           [k \in 1..Len(elements) |->
               IF elements[k].id = id
                 THEN [elements[k] EXCEPT !.name = updates.name]
                 ELSE elements[k]]])

\* removeElement(id)
removeElement(id) ==
    LET Others(el) == el.id # id
    IN SetCurrent([currentProject EXCEPT !.elements = SelectSeq(@, Others)])

\* setPluDocument(doc)
setPluDocument(doc) == SetCurrent([currentProject EXCEPT !.pluDocument = doc])

\* addSitePhoto(photo)
addSitePhoto(photo) ==
    /\ Len(currentProject.sitePhotos) < MaxElements
    /\ SetCurrent([currentProject EXCEPT !.sitePhotos = Append(@, photo)])

\* One call of a store action, of at most MaxStoreSteps.
NextStore ==
    /\ steps < MaxStoreSteps
    /\ steps' = steps + 1
    /\ \/ \E name \in {"Plot A"} : createProject(name)
       \/ \E k \in 1..Len(projects) : setCurrentProject(k)
       \/ \E u \in ProjectUpdates : updateProject(u)
       \/ \E el \in ElementInputs : addElement(el)
       \/ \E el \in ElementInputs, u \in ElementUpdates : updateElement(el.id, u)
       \/ \E el \in ElementInputs : removeElement(el.id)
       \/ \E doc \in DocumentInputs : setPluDocument(doc)
       \/ \E photo \in PhotoInputs : addSitePhoto(photo)
    /\ UNCHANGED <<editorVars, pageVars>>

SpecStore == Init /\ [][NextStore]_vars

(***************************************************************************)
(* Properties: rectangle measurement                                       *)
(***************************************************************************)
\* C1: a rectangle of effective width w and height h, measured while the
\* store's scale is s > 0, has area (w * h) / ppm^2 and perimeter
\* 2 * (w + h) / ppm, with ppm = s * BASE_PIXELS_PER_METER.
C1_RectangleMeasurement ==
    (measured.done /\ measured.obj.type = "rect" /\ measured.storeScale > 0) =>
        LET w   == measured.obj.width * measured.obj.scaleX
            h   == measured.obj.height * measured.obj.scaleY
            ppm == measured.storeScale * BASE_PIXELS_PER_METER
        IN /\ FracEq(measurements.area, w * h, ppm * ppm)
           /\ FracEq(measurements.perimeter, 2 * (w + h), ppm)

\* C2: a rectangle of zero width or height, and a polygon of zero shoelace
\* area, measure as area 0 and a finite perimeter (never NaN, never
\* Infinity), whatever the scale, 0 included.
C2_ZeroSizeMeasuresZero ==
    LET obj == measured.obj
        degenerate ==
            \/ obj.type = "rect" /\
                 (obj.width * OrOne(obj.scaleX) = 0 \/ obj.height * OrOne(obj.scaleY) = 0)
            \/ obj.type = "polygon" /\ calculatePolygonAreaTwice(obj.points) = 0
    IN (measured.done /\ degenerate) =>
          /\ IsZero(measurements.area)
          /\ IsFinite(measurements.perimeter)

(***************************************************************************)
(* Properties: dimension label angle                                       *)
(***************************************************************************)
\* The angle of the text label the last createDimensionLine call built.
LabelAngle == lastDim.elements[6].angle

\* C3 (as stated): the label angle lies in [-90, 90]: it is the edge's angle
\* when that lies in the range and the edge's angle turned by 180 degrees
\* into the range otherwise (170 gives -10).
C3_LabelAngleInRange ==
    lastDim.done =>
        /\ LabelAngle >= -90 /\ LabelAngle <= 90
        /\ LabelAngle \in {lastDim.rawAngle, lastDim.rawAngle - 180, lastDim.rawAngle + 180}

\* C3 (amended): the label angle is the edge's angle when that lies in
\* [-90, 90] and the edge's angle plus 180 otherwise; it is then equal, up
\* to a full turn, to an angle in [-90, 90] (170 gives 350, which is -10).
C3_LabelAngleUpToFullTurn ==
    lastDim.done =>
        LET raw  == lastDim.rawAngle
            norm == ((LabelAngle + 180) % 360) - 180
        IN /\ (raw >= -90 /\ raw <= 90) => LabelAngle = raw
           /\ (raw > 90 \/ raw < -90) => LabelAngle = raw + 180
           /\ norm >= -90 /\ norm <= 90

\* An edge at 170 degrees has been annotated: its label is stored at 350.
C3_Witness ==
    lastDim.done /\ lastDim.rawAngle = 170 /\ LabelAngle = 350

(***************************************************************************)
(* Properties: the object:moving tick                                      *)
(***************************************************************************)
\* The target of the last tick, as the tick left it.
TickTarget == objects[lastTick.target]

\* The bounding box of a canvas object.
Box(o) ==
    [left |-> o.left, top |-> o.top,
     width |-> o.width * OrOne(o.scaleX), height |-> o.height * OrOne(o.scaleY)]

\* The moving shape's box where the snap step of the last tick put it.
SnappedBox ==
    [Box(TickTarget) EXCEPT !.left = lastTick.snapped.x, !.top = lastTick.snapped.y]

\* The canvas objects the last tick's target is compared with.
Compared ==
    { k \in 1..Len(objects) :
        k # lastTick.target /\ objects[k].selectable /\ objects[k].type # "line" }

\* Those of them closer than threshold e to the snapped box on an axis.
Near(edge, e) ==
    { k \in Compared :
        Abs(AxisValue(SnappedBox, edge) - AxisValue(Box(objects[k]), edge)) < e }

First(S) == CHOOSE k \in S : \A j \in S : k <= j

GuidesOn(edge) ==
    { n \in 1..Len(lastTick.guides) : lastTick.guides[n].edge = edge }

VerticalGuides ==
    { n \in 1..Len(lastTick.guides) : lastTick.guides[n].type = "vertical" }

C5_FirstMatchWins ==
    (lastTick.status = "done" /\ lastTick.seen.gs.autoAlign) =>
        LET e == lastTick.seen.gs.alignThreshold
        IN /\ Cardinality(Near("left", e)) > 1 =>
                TickTarget.left = objects[First(Near("left", e))].left
           /\ Cardinality(Near("top", e)) > 1 =>
                TickTarget.top = objects[First(Near("top", e))].top

C7_GuidesMatchFinalPosition ==
    (lastTick.status = "done" /\ lastTick.detected) =>
        \A n \in 1..Len(alignmentGuides) :
            AxisValue(Box(TickTarget), alignmentGuides[n].edge) = alignmentGuides[n].position

\* C8: while snapToGrid and autoAlign are off in gridSettings, also after
\* toggleSnapToGrid turned snapping off, a tick leaves the shape where the
\* pointer put it.
C8_SnapOffLeavesPosition ==
    (lastTick.status # "none" /\ ~lastTick.now.gs.snapToGrid /\ ~lastTick.now.gs.autoAlign) =>
        /\ TickTarget.left = lastTick.pointer.x
        /\ TickTarget.top = lastTick.pointer.y

\* C9: while gridSettings.size <= 0 and snapToGrid is on, a tick or an
\* addFromTemplate call ends in the error InvalidConfiguration and does not
\* put the shape at a computed position.
C9_NonPositiveSizeIsError ==
    /\ (lastTick.status # "none" /\ lastTick.now.gs.snapToGrid /\ lastTick.now.gs.size <= 0) =>
          /\ lastTick.status = "error"
          /\ TickTarget.left = lastTick.pointer.x /\ TickTarget.top = lastTick.pointer.y
    /\ (placed.status # "none" /\ placed.snapOn /\ placed.size <= 0) =>
          placed.status = "error"

C12_FormatBoundary ==
    lastFmt.done =>
        LET n == lastFmt.meters.num
            d == lastFmt.meters.den
        IN /\ (n < d) =>
                \E k \in 0..100 :
                    /\ lastFmt.text = ToString(k) \o " cm"
                    /\ 2 * Abs(100 * n - k * d) <= d
           /\ (n >= d) =>
                \E w \in 1..100, t \in 0..9, u \in 0..9 :
                    /\ lastFmt.text = ToString(w) \o "." \o ToString(t) \o ToString(u) \o " m"
                    /\ 2 * Abs(100 * n - (100 * w + 10 * t + u) * d) <= d
           /\ (n = 99 /\ d = 100) => lastFmt.text = "99 cm"
           /\ (n = 1 /\ d = 1) => lastFmt.text = "1.00 m"

\* Exactly one metre has been formatted.
C12_Witness ==
    lastFmt.done /\ lastFmt.meters = Frac(1, 1) /\ lastFmt.text = "1.00 m"

(***************************************************************************)
(* Properties: guides at the end of a gesture                              *)
(***************************************************************************)
\* C13: every object:modified event leaves alignmentGuides empty, whatever
\* the ticks before it published, and an empty alignmentGuides is filled
\* again only by an object:moving tick whose handler has autoAlign on.
C13_GuidesClearedOnModified ==
    [][ /\ (measured'.by = "object:modified") => alignmentGuides' = <<>>
        /\ (alignmentGuides = <<>> /\ alignmentGuides' # <<>>) =>
              /\ lastTick'.status = "done"
              /\ lastTick'.seen.gs.autoAlign
              /\ alignmentGuides' = lastTick'.guides ]_vars

\* An object:modified event has ended a gesture whose ticks showed guides.
C13_Witness ==
    /\ measured.by = "object:modified"
    /\ measured.hadGuides
    /\ alignmentGuides = <<>>

(***************************************************************************)
(* Properties: the tick as a function of its inputs                        *)
(***************************************************************************)
\* C14: the guides (type, position and relatedId of each) and the corrected
\* position of a tick are determined by the moving shape, the other shapes
\* and the settings: whatever Math.random() returns, a tick on the same
\* inputs gives the same guides and the same position.
C14_TickIsFunctionOfInputs ==
    (lastTick.status = "done") =>
        \A rnd \in RandomDraws :
            LET again == MovingTick(objects, lastTick.target, lastTick.pointer.x,
                                    lastTick.pointer.y, lastTick.seen, lastTick.now, rnd)
            IN /\ again.guides = lastTick.guides
               /\ again.final = lastTick.final

(***************************************************************************)
(* Properties: bounding boxes                                              *)
(***************************************************************************)
\* C20: the boxes a tick builds, for the moving shape and for every shape
\* compared with it, have width = base width * scaleX and height = base
\* height * scaleY, both >= 0, for every scale factor, 0 included.
C20_BoxIsBaseTimesScale ==
    (lastTick.status = "done") =>
        LET cand == AlignCandidates(objects, lastTick.target)
        IN /\ lastTick.bounds.width = TickTarget.width * TickTarget.scaleX
           /\ lastTick.bounds.height = TickTarget.height * TickTarget.scaleY
           /\ lastTick.bounds.width >= 0 /\ lastTick.bounds.height >= 0
           /\ \A k \in 1..Len(lastTick.others) :
                /\ lastTick.others[k].width = objects[cand[k]].width * objects[cand[k]].scaleX
                /\ lastTick.others[k].height = objects[cand[k]].height * objects[cand[k]].scaleY
                /\ lastTick.others[k].width >= 0 /\ lastTick.others[k].height >= 0

(***************************************************************************)
(* Properties: dimension annotations                                       *)
(***************************************************************************)
\* C16: a createDimensionLine call with the canvas in place adds exactly six
\* objects to the canvas, after those already there and in this order: the
\* dimension line, two extension lines, two arrowheads and the text label;
\* each is new, is flagged isMeasurement and carries the given parentId; the
\* six are what the call returns.
C16_SixElementsAdded ==
    lastDim.done =>
        LET els == lastDim.elements
        IN /\ Len(els) = 6
           /\ pcanvas = lastDim.before \o els
           /\ [k \in 1..6 |-> els[k].role] =
                 <<"dimensionLine", "ext1", "ext2", "arrow1", "arrow2", "text">>
           /\ [k \in 1..6 |-> els[k].type] =
                 <<"line", "line", "line", "polygon", "polygon", "text">>
           /\ \A k \in 1..6 :
                 /\ els[k].isMeasurement
                 /\ els[k].parentId = lastDim.parentId
                 /\ \A j \in 1..Len(lastDim.before) : lastDim.before[j].uid # els[k].uid
                 /\ \A j \in 1..6 : j # k => els[j].uid # els[k].uid

\* A second edge has been annotated on a canvas that already held the six
\* objects of the first.
C16_Witness ==
    /\ lastDim.done
    /\ Len(SelectSeq(lastDim.before, IsMeasurementObj)) = 6
    /\ Len(SelectSeq(pcanvas, IsMeasurementObj)) = 12
    /\ lastDim.parentId = "shape-2"

\* The annotation primitives on a canvas: the objects flagged isMeasurement.
Annotations(canvas) == SelectSeq(canvas, IsMeasurementObj)

\* The dimension elements (the objects createDimensionLine builds).
IsDimElement(o) ==
    o.role \in {"dimensionLine", "ext1", "ext2", "arrow1", "arrow2", "text"}

ZeroLength(e) == e.x1 = e.x2 /\ e.y1 = e.y2

\* C17: a zero-length edge is rejected: no dimension element on the canvas
\* was built by createDimensionLine from an edge with (x1, y1) = (x2, y2),
\* and a line or measure gesture whose mouse:up position equals its
\* mouse:down position leaves the annotation primitives of the canvas as
\* they were.
C17_ZeroLengthEdgeRejected ==
    /\ \A k \in 1..Len(pcanvas) : IsDimElement(pcanvas[k]) => ~ZeroLength(pcanvas[k].edge)
    /\ (lastEvt.kind = "mouse:up" /\ lastEvt.tool \in {"line", "measure"}
          /\ lastEvt.start = lastEvt.end) =>
            Annotations(pcanvas) = Annotations(lastEvt.before)

\* The object the last handler acted on.
EvtTarget ==
    LET k == CHOOSE k \in 1..Len(pcanvas) : pcanvas[k].uid = lastEvt.target
    IN pcanvas[k]

\* The annotation objects on a canvas that belong to the shape id.
AnnotationsOf(canvas, id) ==
    LET Belongs(o) == o.isMeasurement /\ o.parentId = id IN SelectSeq(canvas, Belongs)

\* The edges a shape's annotations are due on, from the geometry it has
\* now: the bottom and the right side of a rectangle, and a line from end
\* to end where it now lies.
CurrentEdges(o) ==
    IF o.type = "rect"
      THEN LET w == o.width * o.scaleX
               h == o.height * o.scaleY
           IN << Edge(o.left, o.top + h, o.left + w, o.top + h),
                 Edge(o.left + w, o.top, o.left + w, o.top + h) >>
      ELSE LET px(x) == o.left + (x - Min(o.x1, o.x2)) * o.scaleX
               py(y) == o.top + (y - Min(o.y1, o.y2)) * o.scaleY
           IN << Edge(px(o.x1), py(o.y1), px(o.x2), py(o.y2)) >>

\* The edges a sequence of annotation objects was generated from, one per
\* dimension line.
EdgesOf(elements) ==
    LET IsDimLine(o) == o.role = "dimensionLine"
        lines == SelectSeq(elements, IsDimLine)
    IN [k \in 1..Len(lines) |-> lines[k].edge]

\* C15: after an object:moving, object:scaling or object:modified event on
\* a shape with an id, the objects stored under the id in
\* measurementLabelsRef are exactly the annotation objects of that id on
\* the canvas, and they are the ones generated from the shape's current
\* geometry: one set of six per edge.
C15_OneAnnotationSetPerShape ==
    (lastEvt.kind \in {"object:moving", "object:scaling", "object:modified"}
       /\ EvtTarget.id # "") =>
        LET id  == EvtTarget.id
            reg == RegistryGet(registry, id)
        IN /\ AnnotationsOf(pcanvas, id) = reg
           /\ EdgesOf(reg) = CurrentEdges(EvtTarget)
           /\ Len(reg) = 6 * Len(CurrentEdges(EvtTarget))

(***************************************************************************)
(* Properties: scale selection                                             *)
(***************************************************************************)
\* C19: selecting a different scale does not rewrite the shapes: every
\* shape on the canvas before the selection is on the canvas after it, the
\* same object with the same pixel coordinates, size and scale factors.
C19_ScaleKeepsShapes ==
    (lastEvt.kind = "scale") =>
        \A j \in 1..Len(lastEvt.before) :
            IsShape(lastEvt.before[j]) =>
                \E k \in 1..Len(pcanvas) : pcanvas[k] = lastEvt.before[j]

(***************************************************************************)
(* Properties: degenerate polygons                                         *)
(***************************************************************************)
\* C18: a polygon with fewer than three vertices is skipped:
\* addPolygonMeasurements leaves the canvas and the registry as they were,
\* and updateMeasurements leaves area and perimeter at 0.
C18_FewerThanThreeVerticesSkipped ==
    /\ (lastEvt.kind = "addPolygonMeasurements" /\ Len(lastEvt.points) < 3) =>
          /\ pcanvas = lastEvt.before
          /\ registry = lastEvt.registryBefore
    /\ (measured.done /\ measured.obj.type = "polygon" /\ Len(measured.obj.points) < 3) =>
          /\ IsZero(measurements.area)
          /\ IsZero(measurements.perimeter)

(***************************************************************************)
(* Properties: the shapes a moving shape is compared against               *)
(***************************************************************************)
\* C21: in every object:moving tick that looks for guides, the boxes the
\* moving shape is compared against are those of exactly the other
\* selectable shapes on the canvas: never the moving shape, never a
\* non-selectable object such as a grid line, and every other selectable
\* user shape.
C21_ComparedAreOtherSelectable ==
    (lastTick.status = "done" /\ lastTick.detected) =>
        LET cand == AlignCandidates(objects, lastTick.target)
        IN /\ { cand[k] : k \in 1..Len(cand) } =
                 { k \in 1..Len(objects) : k # lastTick.target /\ objects[k].selectable }
           /\ Len(lastTick.others) = Len(cand)

(***************************************************************************)
(* Properties: polygon measurement                                         *)
(***************************************************************************)
\* The vertices of a polygon under its scale factors.
ScaledPoints(obj) ==
    [k \in 1..Len(obj.points) |->
        [x |-> obj.points[k].x * obj.scaleX, y |-> obj.points[k].y * obj.scaleY]]

\* C22: a polygon measured while the store's scale is s > 0 has the
\* shoelace area of its vertices under its current transform divided by
\* ppm^2, and the sum of the distances between consecutive vertices, the
\* last to the first included, divided by ppm, with
\* ppm = s * BASE_PIXELS_PER_METER.
C22_PolygonMeasurement ==
    (measured.done /\ measured.obj.type = "polygon" /\ measured.storeScale > 0) =>
        LET pts == ScaledPoints(measured.obj)
            ppm == measured.storeScale * BASE_PIXELS_PER_METER
        IN /\ FracEq(measurements.area, calculatePolygonAreaTwice(pts), 2 * ppm * ppm)
           /\ FracEq(measurements.perimeter, PerimeterSum(pts, 1), ppm)

(***************************************************************************)
(* Properties: the place of the dimension label                            *)
(***************************************************************************)
\* C23: the text label createDimensionLine builds is placed at the offset
\* midpoint: its (left, top) is the midpoint of the edge shifted by the
\* vector that shifts the dimension line off the edge (coordinates in
\* thousandths of a pixel).
C23_LabelAtOffsetMidpoint ==
    lastDim.done =>
        LET e       == lastDim.edge
            line    == lastDim.elements[1]
            text    == lastDim.elements[6]
            offsetX == line.x1 - 1000 * e.x1
            offsetY == line.y1 - 1000 * e.y1
        IN /\ line.x2 - 1000 * e.x2 = offsetX
           /\ line.y2 - 1000 * e.y2 = offsetY
           /\ text.left = 500 * (e.x1 + e.x2) + offsetX
           /\ text.top = 500 * (e.y1 + e.y2) + offsetY

IsPolygonShape(o) == o.type = "polygon" /\ o.role = "shape"

\* C24: a double-click with a polygon tool and at least three points placed
\* empties the point list and adds exactly one polygon, with one vertex per
\* placed point; any other double-click leaves the canvas and the points as
\* they were; no polygon on the canvas has fewer than three vertices.
C24_PolygonOnDoubleClick ==
    /\ \A k \in 1..Len(pcanvas) :
          IsPolygonShape(pcanvas[k]) => Len(pcanvas[k].points) >= 3
    /\ lastEvt.kind = "mouse:dblclick" =>
          IF lastEvt.tool \in PolygonTools /\ Len(lastEvt.points) >= 3
            THEN /\ polygonPoints = <<>>
                 /\ Len(SelectSeq(pcanvas, IsPolygonShape))
                      = Len(SelectSeq(lastEvt.before, IsPolygonShape)) + 1
                 /\ \E k \in 1..Len(pcanvas) :
                       /\ pcanvas[k].uid = lastEvt.target
                       /\ IsPolygonShape(pcanvas[k])
                       /\ Len(pcanvas[k].points) = Len(lastEvt.points)
                       /\ \A i \in 1..Len(lastEvt.points) :
                             TransformPoint(pcanvas[k], pcanvas[k].points[i])
                               = lastEvt.points[i]
            ELSE pcanvas = lastEvt.before /\ polygonPoints = lastEvt.points

C24_Witness ==
    /\ lastEvt.kind = "mouse:dblclick"
    /\ lastEvt.tool = "parcel"
    /\ Len(lastEvt.points) = 3
    /\ \E k \in 1..Len(pcanvas) : pcanvas[k].uid = lastEvt.target

C24_WitnessTooFew ==
    /\ lastEvt.kind = "mouse:dblclick"
    /\ lastEvt.tool = "polygon"
    /\ Len(lastEvt.points) = 2

(***************************************************************************)
(* Properties: circles                                                     *)
(***************************************************************************)
\* The circle the last gesture or object event was about, if it is one.
EvtCircles ==
    { k \in 1..Len(pcanvas) :
        /\ lastEvt.kind \in {"mouse:up", "object:moving", "object:scaling",
                              "object:modified"}
        /\ pcanvas[k].uid = lastEvt.target
        /\ pcanvas[k].type = "circle" /\ pcanvas[k].role = "shape" }

\* The diameter line of the circle c has the pixel length 2 * radius *
\* scaleX and its label is that length in metres.
DiameterLengthAndLabel(c) ==
    LET els == RegistryGet(registry, c.id)
    IN /\ Len(els) = 2
       /\ els[1].y1 = els[1].y2
       /\ els[1].x2 - els[1].x1 = 2 * c.radius * c.scaleX
       /\ els[2].label
            = formatMeasurement(Frac(els[1].x2 - els[1].x1,
                                     c.unit * currentScale.pixelsPerMeter))

\* C26: after a circle is drawn, moved or scaled, its diameter annotation
\* is a horizontal line through the centre of the circle as drawn, whose
\* midpoint is that centre, of pixel length 2 * radius * scaleX, labelled
\* with that length in metres.
C26_DiameterMatchesCircle ==
    \A k \in EvtCircles :
        LET c   == pcanvas[k]
            els == RegistryGet(registry, c.id)
        IN /\ DiameterLengthAndLabel(c)
           /\ els[1].x1 + els[1].x2 = 2 * (c.left + c.radius * c.scaleX)
           /\ els[1].y1 = c.top + c.radius * c.scaleY

\* The length and the label alone.
C26_LengthAndLabel == \A k \in EvtCircles : DiameterLengthAndLabel(pcanvas[k])

\* A circle has been scaled to twice its width.
C26_ScaledCircle == \E k \in EvtCircles : pcanvas[k].scaleX = 2

(***************************************************************************)
(* Properties: the annotation registry                                     *)
(***************************************************************************)
OnCanvas(uid) == \E k \in 1..Len(pcanvas) : pcanvas[k].uid = uid

\* C25: every key of measurementLabelsRef is the id of a shape on the
\* canvas and every object stored under it is on the canvas.
C25_RegistryOnCanvas ==
    \A r \in registry :
        /\ \E k \in 1..Len(pcanvas) : pcanvas[k].id = r.id
        /\ \A j \in 1..Len(r.els) : OnCanvas(r.els[j].uid)

\* C27: after handleDelete has removed a selected shape with an id, no
\* object whose parentId is that id is left on the canvas and the registry
\* has no entry for it.
C27_DeleteRemovesAnnotations ==
    (lastEvt.kind = "delete" /\ lastEvt.id # "") =>
        /\ \A k \in 1..Len(pcanvas) : pcanvas[k].parentId # lastEvt.id
        /\ \A r \in registry : r.id # lastEvt.id

(***************************************************************************)
(* Properties: drawing gestures                                            *)
(***************************************************************************)
IsPreview(o) == o.role = "preview"

\* C28: at most one temporary preview shape is on the canvas at any time
\* and none is after mouse:up, however many mouse:move events come between
\* two bindings of the handlers.
C28_OnePreviewAtMost ==
    /\ Len(SelectSeq(pcanvas, IsPreview)) <= 1
    /\ lastEvt.kind = "mouse:up" => Len(SelectSeq(pcanvas, IsPreview)) = 0

\* C29: a mouse:up ends the gesture with isDrawing false and drawingStart
\* null and commits at most one shape, also when it comes before the
\* handlers are bound again; isDrawing holds exactly when drawingStart is
\* set.
C29_GestureEnds ==
    /\ isDrawing <=> drawingStart # NoPoint
    /\ lastEvt.kind = "mouse:up" =>
          /\ ~isDrawing
          /\ drawingStart = NoPoint
          /\ Len(SelectSeq(pcanvas, IsShape))
               <= Len(SelectSeq(lastEvt.before, IsShape)) + 1

(***************************************************************************)
(* Properties: the project store                                           *)
(***************************************************************************)
\* C30: when there is a current project, the entry of projects with its id
\* has the same elements, pluDocument and sitePhotos as the current project.
C30_ListEntryMatchesCurrent ==
    currentProject # NoProject =>
        \E k \in 1..Len(projects) :
            /\ projects[k].id = currentProject.id
            /\ projects[k].elements = currentProject.elements
            /\ projects[k].pluDocument = currentProject.pluDocument
            /\ projects[k].sitePhotos = currentProject.sitePhotos
====
